---- MODULE Spec2Model ----
(***************************************************************************)
(* A model of the IRS bulletin scraper (src/scraper.py, src/config.py,     *)
(* and the standalone script src/main.py):                                 *)
(* the HTTP fetcher with retry and backoff, the sequential crawl of the    *)
(* listing pages, and the download pipeline over a worker pool.            *)
(*                                                                         *)
(*   SpecFetch  one call of make_request against a scripted network        *)
(*   SpecCrawl  get_document_links / get_remote_bulletins against a        *)
(*              listing that may serve any page                            *)
(*   Spec       run, repeated, against one fixed listing                   *)
(*   SpecDownload  one call of download_bulletin on any file state         *)
(*   SpecLedger    create_csv_summary and get_existing_files on any ledger *)
(*   SpecStore     one run over any output directory and ledger            *)
(*   SpecCheck     check_for_new_bulletins over any directory and ledger   *)
(*   SpecValidate  validate_pdf_files / _is_valid_pdf_flexible on one file *)
(*   SpecCleanup   cleanup_invalid_files on any output directory           *)
(*   SpecMaintain  runs and a cleanup from an empty output directory       *)
(*   SpecLoops     one crawl by either loop; SpecLoopsFair, run to its end *)
(*   SpecScript    the standalone script src/main.py against one listing   *)
(***************************************************************************)
EXTENDS Integers, Sequences, FiniteSets, TLC

VARIABLES
    max_retries,        \* self.max_retries
    max_pages,          \* self.max_pages (get_remote_bulletins overrides it)
    cfg_max_pages,      \* the max_pages the scraper was constructed with
    pc,                 \* position of the orchestrating thread
    netScript,          \* SpecFetch: the network's answer to each attempt
    mrResult,           \* SpecFetch: what make_request returned
    caller,             \* who started the crawl: "run" or "check"
    limit,              \* get_remote_bulletins' limit (0 stands for None)
    original_max_pages, \* get_remote_bulletins' saved max_pages
    page_num,           \* get_document_links' page_num
    bulletin_links,     \* get_document_links' bulletin_links
    links_found,        \* get_document_links' links_found
    pos,                \* anchors of the current page already looped over
    crawlLog,           \* history: one entry per listing page requested
    firstSeen,          \* history: the first anchor met for each filename
    result,             \* value returned to the caller of the crawl
    site,               \* Spec: the remote listing, page by page
    max_workers,        \* self.max_workers
    files,              \* the output directory: filename -> file
    ledger,             \* the CSV summary file
    new_bulletins,      \* run's new_bulletins
    tasks,              \* the download_bulletin calls handed to the pool
    download_results,   \* run's download_results
    runsDone,           \* number of runs that have ended
    history,            \* history: one summary per run that has ended
    existing_files,     \* SpecLedger: what get_existing_files returned
    lastSave,           \* history: the last call of create_csv_summary
    local_bulletins,    \* check_for_new_bulletins' local_bulletins
    check_results,      \* what check_for_new_bulletins returned
    pdf_file,           \* SpecValidate: the file handed to the validator
    is_valid,           \* SpecValidate: the validator's verdict
    lastCleanup         \* history: the last call of cleanup_invalid_files

crawlVars == <<caller, limit, original_max_pages, page_num, bulletin_links,
               links_found, pos, crawlLog, firstSeen, result>>
fetchVars == <<netScript, mrResult>>
storeVars == <<files, ledger>>
poolVars == <<new_bulletins, tasks, download_results>>
runVars == <<site, max_workers, files, ledger, new_bulletins, tasks,
             download_results, runsDone, history>>
ledgerVars == <<existing_files, lastSave>>
checkVars == <<local_bulletins, check_results>>
validateVars == <<pdf_file, is_valid>>
cleanupVars == <<lastCleanup>>
auxVars == <<ledgerVars, checkVars, validateVars, cleanupVars>>
vars == <<max_retries, max_pages, cfg_max_pages, pc, netScript, mrResult,
          caller, limit, original_max_pages, page_num, bulletin_links,
          links_found, pos, crawlLog, firstSeen, result,
          site, max_workers, files, ledger, new_bulletins, tasks,
          download_results, runsDone, history, existing_files, lastSave,
          local_bulletins, check_results, pdf_file, is_valid, lastCleanup>>

----------------------------------------------------------------------------
(* Bounds of the model *)

\* largest max_retries a scraper is constructed with in SpecFetch
MaxRetriesBound == 4
\* number of distinct bulletin filenames the remote site can list
MaxNames == 3
\* largest number of bulletin anchors on one listing page
MaxLinksPerPage == 2
\* largest finite max_pages a scraper is constructed with
MaxPagesBound == 3

(* Program constants *)
MAX_RETRIES == 3
MAX_WORKERS == 5
CHUNK_SIZE == 8192
\* float("inf"): the max_pages of a scraper constructed with max_pages=None
Unlimited == -1

Names == 1..MaxNames

----------------------------------------------------------------------------
(* HTTP fetcher: make_request *)

\* what one requests.get can do: status 200, another status, or raise
Outcomes == {"200", "status", "exception"}
Scripts(n) == [1..n -> Outcomes]

\* a response is named by the attempt that received it; None is NoResponse
Response(attempt) == [ok |-> TRUE, attempt |-> attempt]
NoResponse == [ok |-> FALSE, attempt |-> 0]

Get(attempt) == [op |-> "GET", arg |-> attempt]
Sleep(secs) == [op |-> "sleep", arg |-> secs]

\* the body of "for attempt in range(self.max_retries)", from attempt on
RECURSIVE mr_loop(_, _, _)
mr_loop(script, attempt, trace) ==
    IF attempt >= max_retries
    THEN [response |-> NoResponse, trace |-> trace, raised |-> FALSE]
    ELSE LET issued == Append(trace, Get(attempt)) IN
         IF script[attempt + 1] = "200"
         THEN [response |-> Response(attempt), trace |-> issued, raised |-> FALSE]
         ELSE mr_loop(script, attempt + 1,
                      IF attempt < max_retries - 1
                      THEN Append(issued, Sleep(2 ^ attempt))
                      ELSE issued)

\* mutant: the loop keeps going after a 200 and returns the last response
RECURSIVE mr_loop_no_return(_, _, _, _)
mr_loop_no_return(script, attempt, trace, last) ==
    IF attempt >= max_retries
    THEN [response |-> last, trace |-> trace, raised |-> FALSE]
    ELSE mr_loop_no_return(script, attempt + 1,
             IF attempt < max_retries - 1
             THEN Append(Append(trace, Get(attempt)), Sleep(2 ^ attempt))
             ELSE Append(trace, Get(attempt)),
             IF script[attempt + 1] = "200" THEN Response(attempt) ELSE last)

make_request_no_return(script) == mr_loop_no_return(script, 0, <<>>, NoResponse)

\* mutant: the backoff is linear (attempt + 1 seconds) instead of 2^attempt
RECURSIVE mr_loop_linear(_, _, _)
mr_loop_linear(script, attempt, trace) ==
    IF attempt >= max_retries
    THEN [response |-> NoResponse, trace |-> trace, raised |-> FALSE]
    ELSE LET issued == Append(trace, Get(attempt)) IN
         IF script[attempt + 1] = "200"
         THEN [response |-> Response(attempt), trace |-> issued, raised |-> FALSE]
         ELSE mr_loop_linear(script, attempt + 1,
                      IF attempt < max_retries - 1
                      THEN Append(issued, Sleep(attempt + 1))
                      ELSE issued)

make_request_linear(script) == mr_loop_linear(script, 0, <<>>)

\* make_request(url, stream): the response (named by the attempt that got
\* it) or None, with the GETs and sleeps it made
make_request(script) == mr_loop(script, 0, <<>>)

----------------------------------------------------------------------------
(* SpecFetch: one make_request call *)

\* no file
NoFile == [exists |-> FALSE, bytes |-> 0, whole |-> FALSE]
\* csv_file does not exist
NoLedger == [exists |-> FALSE, rows |-> <<>>, corrupt |-> FALSE]

\* nothing loaded, saved, checked or validated yet
NotLoaded == [loaded |-> FALSE, dict |-> <<>>]
NoSave == [made |-> FALSE, again |-> FALSE, before |-> NoLedger,
           outcomes |-> <<>>, write |-> "none", first_write |-> "none"]
NoCheck == [made |-> FALSE, remote |-> <<>>, total_remote_checked |-> 0,
            total_local |-> 0, new_bulletins_count |-> 0,
            new_bulletins |-> <<>>]
NoPdf == [content |-> <<>>, unreadable |-> "unset"]
NoCleanup == [made |-> FALSE, dry_run |-> FALSE, before |-> <<>>,
              ledger_before |-> NoLedger, inspected |-> <<>>,
              attempted |-> {}, deleted |-> {}, returned |-> <<>>]
IdleAux ==
    /\ existing_files = NotLoaded
    /\ lastSave = NoSave
    /\ local_bulletins = {}
    /\ check_results = NoCheck
    /\ pdf_file = NoPdf
    /\ is_valid = FALSE
    /\ lastCleanup = NoCleanup

\* a fresh output directory and no run made yet
IdleRun ==
    /\ files = [n \in Names |-> NoFile]
    /\ ledger = NoLedger
    /\ new_bulletins = <<>> /\ tasks = <<>> /\ download_results = <<>>
    /\ runsDone = 0 /\ history = <<>>
    /\ IdleAux

IdleCrawl ==
    /\ caller = "none" /\ limit = 0 /\ original_max_pages = Unlimited
    /\ page_num = 0 /\ bulletin_links = <<>> /\ crawlLog = <<>>
    /\ links_found = FALSE /\ pos = 0
    /\ firstSeen = {} /\ result = <<>>

InitFetch ==
    /\ max_retries \in 0..MaxRetriesBound
    /\ netScript \in Scripts(max_retries)
    /\ mrResult = [response |-> NoResponse, trace |-> <<>>, raised |-> FALSE]
    /\ pc = "fetch_call"
    /\ max_pages = Unlimited /\ cfg_max_pages = Unlimited
    /\ IdleCrawl
    /\ site = <<>> /\ max_workers = MAX_WORKERS
    /\ IdleRun

CallMakeRequest ==
    /\ pc = "fetch_call"
    /\ mrResult' = make_request(netScript)
    /\ pc' = "fetch_returned"
    /\ UNCHANGED <<auxVars, max_retries, max_pages, cfg_max_pages, netScript, crawlVars>>
    /\ UNCHANGED runVars

NextFetch == CallMakeRequest

SpecFetch == InitFetch /\ [][NextFetch]_vars

\* the GET events of a trace, and its sleeps in order
RECURSIVE SleepsOf(_)
SleepsOf(trace) ==
    IF trace = <<>> THEN <<>>
    ELSE IF Head(trace).op = "sleep"
         THEN <<Head(trace).arg>> \o SleepsOf(Tail(trace))
         ELSE SleepsOf(Tail(trace))
NumGets(trace) == Cardinality({j \in 1..Len(trace) : trace[j].op = "GET"})
\* 1-based index of the first scripted 200, 0 when every attempt fails
FirstOk(script) ==
    IF \E i \in DOMAIN script : script[i] = "200"
    THEN CHOOSE i \in DOMAIN script :
            script[i] = "200" /\ \A j \in 1..(i - 1) : script[j] # "200"
    ELSE 0

\* C1: with max_retries = n >= 1, make_request issues at most n GETs; it
\* returns the response of the first attempt that got status 200 and issues
\* no attempt after it; when all n attempts fail (status or exception) it
\* returns None; it never raises.
C1_MakeRequestContract ==
    (pc = "fetch_returned" /\ max_retries >= 1) =>
        LET gets == NumGets(mrResult.trace)
            first == FirstOk(netScript)
        IN  /\ gets <= max_retries
            /\ ~mrResult.raised
            /\ first # 0 => /\ mrResult.response = Response(first - 1)
                            /\ gets = first
            /\ first = 0 => mrResult.response = NoResponse

\* C1 witness: the second of three attempts succeeds, the third is not made
C1_Witness ==
    /\ pc = "fetch_returned" /\ max_retries = 3
    /\ netScript[1] = "exception" /\ netScript[2] = "200"
    /\ mrResult.response = Response(1)
    /\ NumGets(mrResult.trace) = 2

\* C2: after failed attempt i (0-based) that is not the last one the caller
\* sleeps exactly 2^i seconds and then makes attempt i+1; nothing follows a
\* successful attempt or the final attempt; every sleep follows a failed
\* attempt; two failures then a success give the response after sleeps 1, 2.
C2_BackoffSchedule ==
    pc = "fetch_returned" =>
        LET t == mrResult.trace IN
        /\ \A j \in 1..Len(t) :
              /\ t[j].op = "GET" =>
                    LET i == t[j].arg IN
                    IF netScript[i + 1] # "200" /\ i < max_retries - 1
                    THEN /\ j + 2 <= Len(t)
                         /\ t[j + 1] = Sleep(2 ^ i)
                         /\ t[j + 2] = Get(i + 1)
                    ELSE j = Len(t)
              /\ t[j].op = "sleep" =>
                    /\ j > 1 /\ t[j - 1].op = "GET"
                    /\ netScript[t[j - 1].arg + 1] # "200"
        /\ (/\ max_retries >= 3
            /\ netScript[1] # "200" /\ netScript[2] # "200"
            /\ netScript[3] = "200")
              => /\ mrResult.response = Response(2)
                 /\ SleepsOf(t) = <<1, 2>>

\* C2 witness: status failure, exception, then 200, with max_retries = 4
C2_Witness ==
    /\ pc = "fetch_returned" /\ max_retries = 4
    /\ netScript[1] = "status" /\ netScript[2] = "exception"
    /\ netScript[3] = "200"
    /\ mrResult.response = Response(2)
    /\ SleepsOf(mrResult.trace) = <<1, 2>>

----------------------------------------------------------------------------
(* Listing pages *)

\* the visible text of an anchor, as its words
TextNext == <<"Next", "page">>
TextPrevious == <<"Previous">>
\* "Next" in a_tag.text
ContainsNext(text) == \E i \in 1..Len(text) : text[i] = "Next"

\* soup.find("ul", class_="pagination"): absent, or the anchors of the block,
\* each inside an li that has the class pager__item--next or not
NoPagination == [present |-> FALSE, anchors |-> <<>>]
PagerPrevOnly ==
    [present |-> TRUE,
     anchors |-> <<[li_next |-> FALSE, text |-> TextPrevious]>>]
PagerNextItem ==
    [present |-> TRUE,
     anchors |-> <<[li_next |-> FALSE, text |-> TextPrevious],
                   [li_next |-> TRUE, text |-> TextNext]>>]
PagerNextPlain ==
    [present |-> TRUE,
     anchors |-> <<[li_next |-> FALSE, text |-> TextNext]>>]
Pagers == {NoPagination, PagerPrevOnly, PagerNextItem, PagerNextPlain}

\* a listing page: the filenames of its bulletin anchors in document order
\* (anchors whose href matches /pub/irs-irbs/irb\d+-\d+\.pdf), and its pager
AnchorLists == UNION {[1..k -> Names] : k \in 0..MaxLinksPerPage}
Pages == [anchors : AnchorLists, pager : Pagers]

\* urljoin("https://www.irs.gov", link["href"]): the code never compares
\* URLs, so each anchor's URL is named by its filename and its place
Url(name, page, place) == <<name, page, place>>
\* os.path.basename(pdf_url)
Basename(url) == url[1]

NamesOf(links) == {links[i].name : i \in 1..Len(links)}

\* mutant: any pagination block counts as a next page
has_next_page_any_block(soup) == soup.pager.present

\* _has_next_page(soup)
has_next_page(soup) ==
    IF ~soup.pager.present THEN FALSE
    ELSE IF \E i \in 1..Len(soup.pager.anchors) :
                /\ soup.pager.anchors[i].li_next
                /\ ContainsNext(soup.pager.anchors[i].text)
         THEN TRUE
         ELSE IF \E i \in 1..Len(soup.pager.anchors) :
                    ContainsNext(soup.pager.anchors[i].text)
              THEN TRUE
              ELSE FALSE

\* mutant: an entry counts as already listed only when its URL is the same
already_listed_by_url(links, bulletin_name, pdf_url) ==
    \E j \in 1..Len(links) : pdf_url = links[j].url

\* any(bulletin_name == name for name, _ in bulletin_links)
already_listed(links, bulletin_name, pdf_url) ==
    \E j \in 1..Len(links) : bulletin_name = links[j].name

----------------------------------------------------------------------------
(* Link collector: get_document_links and get_remote_bulletins *)

\* page_num < self.max_pages, max_pages possibly float("inf")
PageLess(p, mp) == mp = Unlimited \/ p < mp

Max(a, b) == IF a >= b THEN a ELSE b
Min(a, b) == IF a <= b THEN a ELSE b

\* limits passed to get_remote_bulletins; 0 stands for None (both are falsy)
Limits == {0, 1, 20, 40, 60}

\* limited_pages = max(1, (limit // 20) + 1)
limited_pages(lim) == Max(1, (lim \div 20) + 1)

\* while page_num < self.max_pages
loop_continues(p, mp) == PageLess(p, mp)

\* mutant: a failed fetch is not noticed
fetch_failed_never(response) == FALSE

\* if not response
fetch_failed(response) == response = NoResponse

\* mutant: a page that added nothing does not end the crawl
stop_after_page_next_only(found, soup) == ~has_next_page(soup)

\* the two breaks after the loop over the anchors: "if not links_found",
\* "if not self._has_next_page(soup)"
stop_after_page(found, soup) == ~found \/ ~has_next_page(soup)

\* where get_document_links returns to
AfterCrawl(who) == IF who = "check" THEN "grb_restore" ELSE "returned"

ResetCrawl ==
    /\ page_num' = 0
    /\ bulletin_links' = <<>>
    /\ links_found' = FALSE
    /\ pos' = 0
    /\ crawlLog' = <<>>
    /\ firstSeen' = {}
    /\ result' = <<>>

\* run's call of get_document_links (scraper.py:344)
CallGetDocumentLinks ==
    /\ pc = "idle"
    /\ caller' = "run"
    /\ limit' = 0
    /\ ResetCrawl
    /\ pc' = "crawl"
    /\ UNCHANGED <<auxVars, max_retries, max_pages, cfg_max_pages, original_max_pages,
                   fetchVars>>
    /\ UNCHANGED runVars

\* get_remote_bulletins(limit) up to its call of get_document_links
CallGetRemoteBulletins(lim) ==
    /\ pc \in {"idle", "check_local"}
    /\ caller' = "check"
    /\ limit' = lim
    /\ IF lim # 0 /\ lim <= 50
       THEN /\ original_max_pages' = max_pages
            /\ max_pages' = limited_pages(lim)
       ELSE UNCHANGED <<original_max_pages, max_pages>>
    /\ ResetCrawl
    /\ pc' = "crawl"
    /\ UNCHANGED <<auxVars, max_retries, cfg_max_pages, fetchVars>>
    /\ UNCHANGED runVars

\* the filenames met so far
SeenNames == {Basename(u) : u \in firstSeen}

\* the last entry of the crawl log, and the log with it replaced
LogLast == crawlLog[Len(crawlLog)]
SetLogLast(entry) == [crawlLog EXCEPT ![Len(crawlLog)] = entry]

\* top of "while page_num < self.max_pages": build the URL, make_request;
\* on None break and return, else parse and start the loop over the anchors
FetchPage ==
    /\ pc = "crawl"
    /\ loop_continues(page_num, max_pages)
    /\ \E response \in {make_request(script).response :
                            script \in Scripts(max_retries)} :
         IF fetch_failed(response)
         THEN /\ crawlLog' = Append(crawlLog,
                    [page |-> page_num, ok |-> response # NoResponse,
                     fresh |-> {}, next |-> FALSE])
              /\ result' = bulletin_links
              /\ pc' = AfterCrawl(caller)
              /\ UNCHANGED <<links_found, pos>>
         ELSE /\ crawlLog' = Append(crawlLog,
                    [page |-> page_num, ok |-> response # NoResponse,
                     fresh |-> {}, next |-> FALSE])
              /\ links_found' = FALSE
              /\ pos' = 0
              /\ pc' = "links"
              /\ UNCHANGED result
    /\ UNCHANGED <<auxVars, max_retries, max_pages, cfg_max_pages, caller, limit,
                   original_max_pages, page_num, bulletin_links, firstSeen,
                   fetchVars>>
    /\ UNCHANGED runVars

\* one pass of "for link in soup.find_all(...)", on an anchor whose href
\* ends in the filename name
ExtractLink(name) ==
    /\ pc = "links"
    /\ LET pdf_url == Url(name, page_num, pos + 1)
           bulletin_name == Basename(pdf_url)
       IN  IF ~already_listed(bulletin_links, bulletin_name, pdf_url)
           THEN /\ bulletin_links' = Append(bulletin_links,
                        [name |-> bulletin_name, url |-> pdf_url])
                /\ links_found' = TRUE
           ELSE UNCHANGED <<bulletin_links, links_found>>
    /\ pos' = pos + 1
    /\ crawlLog' = SetLogLast([LogLast EXCEPT
                        !.fresh = @ \cup ({name} \ SeenNames)])
    /\ firstSeen' = IF name \in SeenNames THEN firstSeen
                    ELSE firstSeen \cup {Url(name, page_num, pos + 1)}
    /\ UNCHANGED <<auxVars, max_retries, max_pages, cfg_max_pages, pc, caller, limit,
                   original_max_pages, page_num, result, fetchVars>>
    /\ UNCHANGED runVars

\* after the loop over the anchors, on a page whose pager is pager: break
\* when no link was new or there is no next page, else go to the next page
PageEnd(pager) ==
    /\ pc = "links"
    /\ crawlLog' = SetLogLast([LogLast EXCEPT
                        !.next = pager.present /\
                                 \E i \in 1..Len(pager.anchors) :
                                    ContainsNext(pager.anchors[i].text)])
    /\ IF stop_after_page(links_found, [pager |-> pager])
       THEN /\ result' = bulletin_links
            /\ pc' = AfterCrawl(caller)
            /\ UNCHANGED page_num
       ELSE /\ page_num' = page_num + 1
            /\ pc' = "crawl"
            /\ UNCHANGED result
    /\ UNCHANGED <<auxVars, max_retries, max_pages, cfg_max_pages, caller, limit,
                   original_max_pages, bulletin_links, links_found, pos,
                   firstSeen, fetchVars>>
    /\ UNCHANGED runVars

\* the while condition is false: return bulletin_links
CrawlExit ==
    /\ pc = "crawl"
    /\ ~loop_continues(page_num, max_pages)
    /\ result' = bulletin_links
    /\ pc' = AfterCrawl(caller)
    /\ UNCHANGED <<auxVars, max_retries, max_pages, cfg_max_pages, caller, limit,
                   original_max_pages, page_num, bulletin_links, links_found,
                   pos, crawlLog, firstSeen, fetchVars>>
    /\ UNCHANGED runVars

\* mutant: the override of max_pages is never taken back
GetRemoteBulletinsReturn_keeps_override ==
    /\ pc = "grb_restore"
    /\ UNCHANGED max_pages
    /\ result' = IF limit # 0
                 THEN SubSeq(result, 1, Min(limit, Len(result)))
                 ELSE result
    /\ pc' = "returned"
    /\ UNCHANGED <<auxVars, max_retries, cfg_max_pages, caller, limit, original_max_pages,
                   page_num, bulletin_links, links_found, pos, crawlLog,
                   firstSeen, fetchVars>>
    /\ UNCHANGED runVars

\* get_remote_bulletins after get_document_links returned: restore
\* max_pages, return all_bulletins[:limit]
GetRemoteBulletinsReturn ==
    /\ pc = "grb_restore"
    /\ IF limit # 0 /\ limit <= 50
       THEN max_pages' = original_max_pages
       ELSE UNCHANGED max_pages
    /\ result' = IF limit # 0
                 THEN SubSeq(result, 1, Min(limit, Len(result)))
                 ELSE result
    /\ pc' = "returned"
    /\ UNCHANGED <<auxVars, max_retries, cfg_max_pages, caller, limit, original_max_pages,
                   page_num, bulletin_links, links_found, pos, crawlLog,
                   firstSeen, fetchVars>>
    /\ UNCHANGED runVars

\* a scraper constructed with max_pages None (unlimited) or a number
MaxPagesConfigs == {Unlimited} \cup 1..MaxPagesBound

InitCrawl ==
    /\ max_retries = MAX_RETRIES
    /\ cfg_max_pages \in MaxPagesConfigs
    /\ max_pages = cfg_max_pages
    /\ pc = "idle"
    /\ netScript = <<>>
    /\ mrResult = [response |-> NoResponse, trace |-> <<>>, raised |-> FALSE]
    /\ IdleCrawl
    /\ site = <<>> /\ max_workers = MAX_WORKERS
    /\ IdleRun

\* the caller has the list; the scraper can be called again
CallerContinues ==
    /\ pc = "returned"
    /\ pc' = "idle"
    /\ UNCHANGED <<auxVars, max_retries, max_pages, cfg_max_pages, crawlVars, fetchVars>>
    /\ UNCHANGED runVars

\* the listing serves any page: any next anchor, any pager
ServeAnchor == \E name \in Names : pos < MaxLinksPerPage /\ ExtractLink(name)
ServePager == \E pager \in Pagers : PageEnd(pager)

NextCrawl ==
    \/ CallGetDocumentLinks
    \/ \E lim \in Limits : CallGetRemoteBulletins(lim)
    \/ FetchPage
    \/ ServeAnchor
    \/ ServePager
    \/ CrawlExit
    \/ GetRemoteBulletinsReturn
    \/ CallerContinues

SpecCrawl == InitCrawl /\ [][NextCrawl]_vars

\* anchor u comes before anchor v in the listing: page order, then place
Before(u, v) == u[2] < v[2] \/ (u[2] = v[2] /\ u[3] < v[3])
\* page k of the crawl (1-based entry of the log) has been dealt with
PageDone(k) == k < Len(crawlLog) \/ pc # "links"
\* get_document_links has returned
CrawlReturned == pc \notin {"crawl", "links"}
\* result still is the list get_document_links returned
ResultIsCrawlList == pc = "grb_restore" \/ (caller = "run" /\ CrawlReturned)
\* the filenames first met on pages 1..k
FreshUpTo(k) == UNION {crawlLog[j].fresh : j \in 1..k}

\* C3: at every point of a crawl, whatever pages the listing serves, no two
\* entries of the collection have the same filename; the entries are in
\* first-discovery order (page, then place within the page); the collection
\* holds every filename met so far with the URL of its first occurrence, so
\* a later occurrence (same or later page, other URL) changes nothing.
C3_UniqueFirstDiscoveryOrder ==
    /\ \A i, j \in 1..Len(bulletin_links) :
          i # j => bulletin_links[i].name # bulletin_links[j].name
    /\ \A i, j \in 1..Len(bulletin_links) :
          i < j => Before(bulletin_links[i].url, bulletin_links[j].url)
    /\ \A i \in 1..Len(bulletin_links) :
          bulletin_links[i].name = Basename(bulletin_links[i].url)
    /\ {bulletin_links[i].url : i \in 1..Len(bulletin_links)} = firstSeen

\* C3 witness: the first anchor of the second page repeats, under another
\* URL, the filename collected from the first page, and is not added
C3_Witness ==
    /\ pc = "links" /\ page_num = 1 /\ pos = 1
    /\ bulletin_links = <<[name |-> 1, url |-> Url(1, 0, 1)]>>

\* C4: if page k is the first page without a qualifying next control and
\* pages 1..k were all fetched and each added a new link, the crawl returns
\* the links of pages 1..k and requests no page k+1.
C4_StopsAtFirstPageWithoutNext ==
    \A k \in 1..Len(crawlLog) :
        (/\ PageDone(k)
         /\ \A j \in 1..k : crawlLog[j].ok /\ crawlLog[j].fresh # {}
         /\ \A j \in 1..(k - 1) : crawlLog[j].next
         /\ ~crawlLog[k].next)
        => /\ Len(crawlLog) = k
           /\ CrawlReturned
           /\ NamesOf(bulletin_links) = FreshUpTo(k)
           /\ Len(bulletin_links) = Cardinality(FreshUpTo(k))
           /\ ResultIsCrawlList => result = bulletin_links

\* C4 witness: pages 1 and 2 have a next control, page 3 has a pager
\* without one; three pages requested, their three links returned
C4_Witness ==
    /\ pc = "returned" /\ caller = "run"
    /\ Len(crawlLog) = 3
    /\ \A j \in 1..3 : crawlLog[j].ok /\ crawlLog[j].fresh # {}
    /\ crawlLog[1].next /\ crawlLog[2].next /\ ~crawlLog[3].next
    /\ Len(result) = 3

\* C5: a fetched page that adds no filename to the collection ends the
\* crawl: no further page is requested and the collection returned is the
\* one of the pages before it, also when the page has a next control.
C5_StopsOnPageWithoutNewLinks ==
    \A k \in 1..Len(crawlLog) :
        (PageDone(k) /\ crawlLog[k].ok /\ crawlLog[k].fresh = {})
        => /\ Len(crawlLog) = k
           /\ CrawlReturned
           /\ NamesOf(bulletin_links) = FreshUpTo(k - 1)
           /\ Len(bulletin_links) = Cardinality(FreshUpTo(k - 1))
           /\ ResultIsCrawlList => result = bulletin_links

\* C5 witness: page 2 repeats links of page 1 and has a next control
C5_Witness ==
    /\ pc = "returned" /\ caller = "run"
    /\ Len(crawlLog) = 2 /\ pos = 2
    /\ crawlLog[2].ok /\ crawlLog[2].fresh = {} /\ crawlLog[2].next
    /\ Len(result) = 2

\* C6: when the fetch of a page fails for good, get_document_links stops
\* there, requests no later page and returns, as an ordinary value, the
\* links collected from the pages before it.
C6_FetchFailureReturnsPartial ==
    \A k \in 1..Len(crawlLog) :
        ~crawlLog[k].ok
        => /\ Len(crawlLog) = k
           /\ CrawlReturned
           /\ NamesOf(bulletin_links) = FreshUpTo(k - 1)
           /\ Len(bulletin_links) = Cardinality(FreshUpTo(k - 1))
           /\ ResultIsCrawlList => result = bulletin_links

\* C6 witness: page 1 gave two links, the fetch of page 2 failed
C6_Witness ==
    /\ pc = "returned" /\ caller = "run"
    /\ Len(crawlLog) = 2 /\ crawlLog[1].ok /\ ~crawlLog[2].ok
    /\ Len(result) = 2

\* C7: in every crawl, started by run or by get_remote_bulletins with any
\* limit, the number of listing pages requested is at most the max_pages
\* the scraper was constructed with.
C7_PagesWithinConfiguredMax ==
    cfg_max_pages # Unlimited => Len(crawlLog) <= cfg_max_pages

----------------------------------------------------------------------------
(* Storage, outcomes and the ledger *)

\* number of distinct filenames on the listing of Spec
MaxListedNames == 2
\* number of runs made in Spec
MaxRuns == 2

\* download_timestamp "existing"; the other timestamps are clock readings
Existing == 0

\* the size in bytes of the document behind a bulletin URL; the first
\* document is an empty body, the others are PDF documents
DocBytes(name) == (name - 1) * 786432
WholeFile(name) == [exists |-> TRUE, bytes |-> DocBytes(name), whole |-> TRUE]
\* what is on disk when a write fails after the first chunk
PartialFile(name) ==
    [exists |-> TRUE, bytes |-> Min(CHUNK_SIZE, DocBytes(name)), whole |-> FALSE]

\* round(x, 2) of a size in MB, as a number of hundredths (ties to even)
RoundHundredths(bytes) ==
    LET mb == 1024 * 1024
        q == (bytes * 100) \div mb
        r == (bytes * 100) % mb
    IN  IF 2 * r < mb THEN q
        ELSE IF 2 * r > mb THEN q + 1
        ELSE IF q % 2 = 0 THEN q ELSE q + 1

\* round(self.get_file_size_mb(file_path), 2)
file_size_mb(file) == RoundHundredths(file.bytes)

\* self.get_timestamp(): the clock is read once per run
Clock(runs) == runs + 1
Now == Clock(runsDone)

\* mutant: nothing is ever found in the output directory
file_exists_never(filename) == FALSE

\* mutant: a filename the ledger records as downloaded counts as present
file_exists_or_recorded(filename) ==
    \/ files[filename].exists
    \/ \E i \in 1..Len(ledger.rows) :
          /\ ledger.rows[i].file_name = filename
          /\ ledger.rows[i].status = "downloaded"

\* self.file_exists(filename)
file_exists(filename) == files[filename].exists

Outcome(name, size, stamp, status) ==
    [file_name |-> name, file_size_mb |-> size, download_timestamp |-> stamp,
     status |-> status]
NoOutcome == Outcome(0, 0, Existing, "none")

\* str(value), as csv.DictWriter writes a cell that is not already text
Str(value) == [text |-> value]

\* the line writer.writerow(...) writes for a result dictionary
CsvRow(o) ==
    [file_name |-> o.file_name,
     file_size_mb |-> Str(o.file_size_mb),
     download_timestamp |-> Str(o.download_timestamp),
     status |-> o.status]

\* the values of existing_files: a row read by csv.DictReader (all text),
\* or a result dictionary of download_bulletin
FromCsv(row) == [csv |-> TRUE, v |-> row]
FromResult(o) == [csv |-> FALSE, v |-> o]
\* writer.writerow(existing_files[filename]): text is written as it is
writerow(entry) == IF entry.csv THEN entry.v ELSE CsvRow(entry.v)

\* existing_files[key] = entry
Put(dict, key, entry) ==
    [n \in DOMAIN dict \cup {key} |-> IF n = key THEN entry ELSE dict[n]]

\* for row in reader: existing_files[row["file_name"]] = row
RECURSIVE rows_to_dict(_, _)
rows_to_dict(rows, dict) ==
    IF rows = <<>> THEN dict
    ELSE rows_to_dict(Tail(rows),
                      Put(dict, Head(rows).file_name, FromCsv(Head(rows))))

\* get_existing_files(): filename -> row; empty when there is no CSV file;
\* when reading raises (csv.corrupt), the rows read before the error stay
get_existing_files(csv) ==
    IF ~csv.exists THEN <<>> ELSE rows_to_dict(csv.rows, <<>>)

\* mutant: a filename already in the mapping keeps its entry
RECURSIVE update_with_setdefault(_, _)
update_with_setdefault(dict, results) ==
    IF results = <<>> THEN dict
    ELSE update_with_setdefault(
            IF Head(results).file_name \in DOMAIN dict THEN dict
            ELSE Put(dict, Head(results).file_name, FromResult(Head(results))),
            Tail(results))

\* for result in download_results: existing_files[result["file_name"]] = result
RECURSIVE update_with(_, _)
update_with(dict, results) ==
    IF results = <<>> THEN dict
    ELSE update_with(Put(dict, Head(results).file_name,
                         FromResult(Head(results))),
                     Tail(results))

\* mutant: the rows are written by descending filename
RECURSIVE sorted_rows_descending(_)
sorted_rows_descending(dict) ==
    IF DOMAIN dict = {} THEN <<>>
    ELSE LET first == CHOOSE n \in DOMAIN dict : \A m \in DOMAIN dict : n >= m
         IN  <<writerow(dict[first])>> \o
             sorted_rows_descending([n \in DOMAIN dict \ {first} |-> dict[n]])

\* for filename in sorted(existing_files.keys()): writer.writerow(...)
RECURSIVE sorted_rows(_)
sorted_rows(dict) ==
    IF DOMAIN dict = {} THEN <<>>
    ELSE LET first == CHOOSE n \in DOMAIN dict : \A m \in DOMAIN dict : n <= m
         IN  <<writerow(dict[first])>> \o
             sorted_rows([n \in DOMAIN dict \ {first} |-> dict[n]])

\* the rows create_csv_summary sets out to write
merged_rows(csv, results) ==
    sorted_rows(update_with(get_existing_files(csv), results))

\* what writing the CSV file can do: succeed, fail at open (the file is as
\* it was), or fail after the header and some of the rows
WriteOk == [kind |-> "ok", rows |-> 0]
OpenError == [kind |-> "open_error", rows |-> 0]
WriteError(k) == [kind |-> "write_error", rows |-> k]
WriteResults(rows) ==
    {WriteOk, OpenError} \cup {WriteError(k) : k \in 0..(Len(rows) - 1)}

\* the lines writer.writerow writes for a list of result dictionaries
RECURSIVE CsvRows(_)
CsvRows(results) ==
    IF results = <<>> THEN <<>>
    ELSE <<CsvRow(Head(results))>> \o CsvRows(Tail(results))

\* mutant: the new rows are appended to the file
create_csv_summary_append(csv, results, wr) ==
    IF wr.kind = "open_error" THEN csv
    ELSE [exists |-> TRUE,
          rows |-> csv.rows \o CsvRows(results),
          corrupt |-> FALSE]

\* create_csv_summary(download_results): the CSV file it leaves; the
\* exception of a failed write is logged, not raised
create_csv_summary(csv, results, wr) ==
    LET rows == merged_rows(csv, results) IN
    IF wr.kind = "open_error" THEN csv
    ELSE [exists |-> TRUE,
          rows |-> IF wr.kind = "ok" THEN rows ELSE SubSeq(rows, 1, wr.rows),
          corrupt |-> FALSE]

----------------------------------------------------------------------------
(* Download manager: download_bulletin and run *)

\* a call of download_bulletin: its argument, where it is, what it did
Task(link, at) ==
    [link |-> link, pc |-> at, existed |-> FALSE, requests |-> 0,
     fetched |-> FALSE, write |-> "none", unlink |-> "none",
     outcome |-> NoOutcome, collected |-> FALSE]

Finished(t) == tasks[t].pc \in {"done", "raised"}
Running == {t \in 1..Len(tasks) : tasks[t].pc = "running"}

\* what open(file_path, "wb") and the writes of the chunks can do
WriteOutcomes == {"ok", "open_error", "write_error"}
\* what file_path.unlink() can do
UnlinkOutcomes == {"ok", "error"}

\* mutant: every submitted call is executed at once
Dispatch_all(ts) ==
    [t \in 1..Len(ts) |->
        IF ts[t].pc = "queued" THEN [ts[t] EXCEPT !.pc = "running"] ELSE ts[t]]

\* ThreadPoolExecutor(max_workers): a call waits in the queue only while
\* max_workers calls are being executed; the oldest waiting call is next
Dispatch(ts) ==
    LET free == max_workers -
                  Cardinality({t \in 1..Len(ts) : ts[t].pc = "running"})
        ahead(t) == Cardinality({u \in 1..(t - 1) : ts[u].pc = "queued"})
    IN  [t \in 1..Len(ts) |->
            IF ts[t].pc = "queued" /\ ahead(t) < free
            THEN [ts[t] EXCEPT !.pc = "running"]
            ELSE ts[t]]

\* the task returns outcome o; its worker takes the next call
Return(t, o, did) ==
    tasks' = Dispatch([tasks EXCEPT ![t] =
                          [did EXCEPT !.pc = "done", !.outcome = o]])
\* the task ends with an exception; its worker takes the next call
Raise(t, did) ==
    tasks' = Dispatch([tasks EXCEPT ![t] = [did EXCEPT !.pc = "raised"]])

\* download_bulletin(bulletin_info), run by a worker thread
DownloadBulletin(t) ==
    /\ t \in 1..Len(tasks)
    /\ tasks[t].pc = "running"
    /\ LET bulletin_name == tasks[t].link.name
           me == tasks[t]
       IN  IF files[bulletin_name].exists
           THEN \* skip: the file is there
                /\ Return(t, Outcome(bulletin_name,
                                     file_size_mb(files[bulletin_name]),
                                     Existing, "skipped"),
                          [me EXCEPT !.existed = files[bulletin_name].exists])
                /\ UNCHANGED files
           ELSE \E response \in {make_request(script).response :
                                    script \in Scripts(max_retries)} :
                LET asked == [me EXCEPT !.existed = files[bulletin_name].exists,
                                        !.requests = 1,
                                        !.fetched = response # NoResponse]
                IN  IF response = NoResponse
                    THEN /\ Return(t, Outcome(bulletin_name, 0, Now, "failed"),
                                   asked)
                         /\ UNCHANGED files
                    ELSE \E w \in WriteOutcomes :
                         LET wrote == [asked EXCEPT !.write = w] IN
                         IF w = "ok"
                         THEN \* process_document(file_path)
                              /\ files' = [files EXCEPT ![bulletin_name] =
                                              WholeFile(bulletin_name)]
                              /\ Return(t, Outcome(bulletin_name,
                                               file_size_mb(WholeFile(bulletin_name)),
                                               Now, "downloaded"),
                                        wrote)
                         ELSE IF w = "open_error"
                         THEN \* nothing on disk, file_path.exists() is False
                              /\ Return(t, Outcome(bulletin_name, 0, Now, "failed"),
                                        wrote)
                              /\ UNCHANGED files
                         ELSE \* a partial file: unlink it
                              \E u \in UnlinkOutcomes :
                              IF u = "ok"
                              THEN /\ files' = [files EXCEPT
                                                  ![bulletin_name] = NoFile]
                                   /\ Return(t, Outcome(bulletin_name, 0, Now,
                                                        "failed"),
                                             [wrote EXCEPT !.unlink = u])
                              ELSE \* unlink raises inside the except block
                                   /\ files' = [files EXCEPT ![bulletin_name] =
                                                   PartialFile(bulletin_name)]
                                   /\ Raise(t, [wrote EXCEPT !.unlink = u])
    /\ UNCHANGED <<auxVars, max_retries, max_pages, cfg_max_pages, pc, crawlVars,
                   fetchVars, site, max_workers, ledger, new_bulletins,
                   download_results, runsDone, history>>

\* what is recorded of a run: what the crawl listed, which files were
\* there at filter time, what was submitted, how it ended and with what
RunRecord(how, submitted) ==
    [how |-> how,
     listed |-> NamesOf(result),
     crawl_ok |-> \A k \in 1..Len(crawlLog) : crawlLog[k].ok,
     present |-> {n \in Names : files[n].exists},
     ledgered |-> {ledger.rows[i].file_name : i \in 1..Len(ledger.rows)},
     ledger_downloaded |->
        {ledger.rows[i].file_name :
            i \in {j \in 1..Len(ledger.rows) :
                      ledger.rows[j].status = "downloaded"}},
     submitted |-> submitted,
     downloaded |-> {},
     failed |-> {},
     skipped |-> {}]

\* run returns or raises
EndRun ==
    /\ runsDone' = runsDone + 1
    /\ new_bulletins' = <<>>
    /\ tasks' = <<>>
    /\ download_results' = <<>>
    /\ pc' = "idle"

\* the record of the run that ends after its downloads
\* the filenames of the collected outcomes with a status
WithStatus(status) ==
    {download_results[i].file_name :
        i \in {j \in 1..Len(download_results) :
                  download_results[j].status = status}}

Ended(how) ==
    [history EXCEPT ![Len(history)] =
        [@ EXCEPT !.how = how,
                  !.downloaded = WithStatus("downloaded"),
                  !.failed = WithStatus("failed"),
                  !.skipped = WithStatus("skipped")]]

\* [(name, url) for name, url in bulletin_links if not self.file_exists(name)]
RECURSIVE not_downloaded(_)
not_downloaded(links) ==
    IF links = <<>> THEN <<>>
    ELSE IF ~file_exists(Head(links).name)
         THEN <<Head(links)>> \o not_downloaded(Tail(links))
         ELSE not_downloaded(Tail(links))

\* run, from the return of get_document_links to the submission of the
\* downloads, or to one of the two early returns
RunFilter ==
    /\ pc = "returned" /\ caller = "run"
    /\ IF result = <<>>
       THEN \* "No bulletin links found"
            /\ history' = Append(history, RunRecord("no_links", {}))
            /\ EndRun
            /\ UNCHANGED <<files, ledger>>
       ELSE IF not_downloaded(result) = <<>>
       THEN \* "No new bulletins to download"
            /\ history' = Append(history, RunRecord("nothing_new", {}))
            /\ EndRun
            /\ UNCHANGED <<files, ledger>>
       ELSE /\ new_bulletins' = not_downloaded(result)
            /\ tasks' = Dispatch([i \in 1..Len(not_downloaded(result)) |->
                                     Task(not_downloaded(result)[i], "queued")])
            /\ download_results' = <<>>
            /\ history' = Append(history,
                  RunRecord("pool", NamesOf(not_downloaded(result))))
            /\ pc' = "pool"
            /\ UNCHANGED <<files, ledger, runsDone>>
    /\ UNCHANGED <<auxVars, max_retries, max_pages, cfg_max_pages, crawlVars, fetchVars,
                   site, max_workers>>

\* for future in as_completed(...): result = future.result(); append it.
\* future.result() re-raises what the call raised: the with block is left
Collect(t) ==
    /\ pc = "pool"
    /\ t \in 1..Len(tasks)
    /\ Finished(t) /\ ~tasks[t].collected
    /\ tasks' = [tasks EXCEPT ![t].collected = TRUE]
    /\ IF tasks[t].pc = "done"
       THEN /\ download_results' = Append(download_results, tasks[t].outcome)
            /\ UNCHANGED pc
       ELSE /\ pc' = "pool_abort"
            /\ UNCHANGED download_results
    /\ UNCHANGED <<auxVars, max_retries, max_pages, cfg_max_pages, crawlVars, fetchVars,
                   site, max_workers, files, ledger, new_bulletins, runsDone,
                   history>>

\* mutant: the loop over as_completed is left at the first result
all_collected_first(ts) == \E t \in 1..Len(ts) : ts[t].collected

\* the loop over as_completed(future_to_bulletin) has yielded every future
all_collected(ts) == \A t \in 1..Len(ts) : ts[t].collected

\* every result is in: leave the with block, create_csv_summary, return
RunSave ==
    /\ pc = "pool"
    /\ all_collected(tasks)
    /\ \E wr \in {WriteOk, OpenError} :
          ledger' = create_csv_summary(ledger, download_results, wr)
    /\ history' = Ended("saved")
    /\ EndRun
    /\ UNCHANGED <<auxVars, max_retries, max_pages, cfg_max_pages, crawlVars, fetchVars,
                   site, max_workers, files>>

\* the with block left by an exception: the executor waits for the calls
\* still queued or running, then run raises; the ledger is not written
RunRaise ==
    /\ pc = "pool_abort"
    /\ \A t \in 1..Len(tasks) : Finished(t)
    /\ history' = Ended("raised")
    /\ EndRun
    /\ UNCHANGED <<auxVars, max_retries, max_pages, cfg_max_pages, crawlVars, fetchVars,
                   site, max_workers, files, ledger>>

----------------------------------------------------------------------------
(* Spec: runs against one listing *)

\* a listing cut into pages of MaxLinksPerPage anchors, a Next item on
\* every page but the last
RECURSIVE Paginate(_, _)
Paginate(listing, first) ==
    IF Len(listing) <= MaxLinksPerPage
    THEN <<[anchors |-> listing,
            pager |-> IF first THEN NoPagination ELSE PagerPrevOnly]>>
    ELSE <<[anchors |-> SubSeq(listing, 1, MaxLinksPerPage),
            pager |-> PagerNextItem]>>
         \o Paginate(SubSeq(listing, MaxLinksPerPage + 1, Len(listing)), FALSE)

\* the listings: none, or k filenames in page order followed by a second
\* anchor for the first filename
Listings ==
    {<<>>} \cup
    {[i \in 1..(k + 1) |-> IF i <= k THEN i ELSE 1] : k \in 1..MaxListedNames}

\* the pool sizes: one worker, or the configured default
WorkerConfigs == {1, MAX_WORKERS}

\* the page the site serves for page_num: past the last page, an empty one
EmptyPage == [anchors |-> <<>>, pager |-> NoPagination]
SitePage == IF page_num < Len(site) THEN site[page_num + 1] ELSE EmptyPage

SiteAnchor ==
    /\ pos < Len(SitePage.anchors)
    /\ ExtractLink(SitePage.anchors[pos + 1])
SitePager ==
    /\ pos = Len(SitePage.anchors)
    /\ PageEnd(SitePage.pager)

\* the page caps: none (the default), or the first page only
PageConfigs == {Unlimited, 1}

RunCrawl == runsDone < MaxRuns /\ CallGetDocumentLinks

Init ==
    /\ max_retries = MAX_RETRIES
    /\ cfg_max_pages \in PageConfigs
    /\ max_pages = cfg_max_pages
    /\ pc = "idle"
    /\ netScript = <<>>
    /\ mrResult = [response |-> NoResponse, trace |-> <<>>, raised |-> FALSE]
    /\ IdleCrawl
    /\ site \in {Paginate(l, TRUE) : l \in Listings}
    /\ max_workers \in WorkerConfigs
    /\ IdleRun

Next ==
    \/ RunCrawl
    \/ FetchPage
    \/ SiteAnchor
    \/ SitePager
    \/ CrawlExit
    \/ RunFilter
    \/ \E t \in 1..Len(tasks) : DownloadBulletin(t)
    \/ \E t \in 1..Len(tasks) : Collect(t)
    \/ RunSave
    \/ RunRaise

Spec == Init /\ [][Next]_vars

----------------------------------------------------------------------------
(* SpecDownload: download_bulletin called on any state of the directory *)

FileStates(name) == {NoFile, WholeFile(name), PartialFile(name)}

InitDownload ==
    /\ max_retries \in 1..MaxRetriesBound
    /\ cfg_max_pages = Unlimited
    /\ max_pages = cfg_max_pages
    /\ pc = "direct"
    /\ netScript = <<>>
    /\ mrResult = [response |-> NoResponse, trace |-> <<>>, raised |-> FALSE]
    /\ IdleCrawl
    /\ site = <<>>
    /\ max_workers = MAX_WORKERS
    /\ files \in {f \in [Names -> UNION {FileStates(n) : n \in Names}] :
                    \A n \in Names : f[n] \in FileStates(n)}
    /\ ledger = NoLedger
    /\ new_bulletins = <<>>
    /\ tasks = <<>>
    /\ download_results = <<>>
    /\ runsDone = 0
    /\ history = <<>>
    /\ IdleAux

\* self.download_bulletin((bulletin_name, pdf_url))
CallDownloadBulletin(name) ==
    /\ pc = "direct"
    /\ tasks = <<>>
    /\ tasks' = <<Task([name |-> name, url |-> Url(name, 0, 0)], "running")>>
    /\ UNCHANGED <<auxVars, max_retries, max_pages, cfg_max_pages, pc, crawlVars,
                   fetchVars, site, max_workers, files, ledger, new_bulletins,
                   download_results, runsDone, history>>

\* the caller has the outcome, or the exception
DirectReturn ==
    /\ pc = "direct"
    /\ tasks # <<>>
    /\ Finished(1)
    /\ tasks' = <<>>
    /\ UNCHANGED <<auxVars, max_retries, max_pages, cfg_max_pages, pc, crawlVars,
                   fetchVars, site, max_workers, files, ledger, new_bulletins,
                   download_results, runsDone, history>>

NextDownload ==
    \/ \E name \in Names : CallDownloadBulletin(name)
    \/ \E t \in 1..Len(tasks) : DownloadBulletin(t)
    \/ DirectReturn

SpecDownload == InitDownload /\ [][NextDownload]_vars

----------------------------------------------------------------------------
(* Claims about download_bulletin and run *)

Returned(t) == tasks[t].pc \notin {"queued", "running"}

\* C8: each call of download_bulletin returns exactly one outcome for its
\* link's filename, decided in this order: skipped, with the timestamp
\* "existing", the size of the existing file and no network request, if the
\* file exists when the call starts; otherwise failed with size 0 if the
\* fetch fails; otherwise failed with size 0 if writing the body raises;
\* otherwise downloaded, with the file in storage.
C8_OneOutcomeInOrder ==
    \A t \in 1..Len(tasks) :
        Returned(t) =>
            LET call == tasks[t]
                o == call.outcome
                name == call.link.name
            IN  /\ call.pc = "done"
                /\ o.file_name = name
                /\ IF call.existed
                   THEN /\ o.status = "skipped"
                        /\ o.download_timestamp = Existing
                        /\ o.file_size_mb = file_size_mb(files[name])
                        /\ call.requests = 0
                   ELSE IF ~call.fetched
                   THEN o.status = "failed" /\ o.file_size_mb = 0
                   ELSE IF call.write # "ok"
                   THEN o.status = "failed" /\ o.file_size_mb = 0
                   ELSE /\ o.status = "downloaded"
                        /\ files[name].exists

\* C9: in a batch run, a document whose write raises gets a failed outcome
\* and has no file, partial or complete, in storage once its outcome is
\* produced, while every other link of the batch whose own fetch and write
\* succeed still gets a downloaded outcome with its file present: the
\* collection of the outcomes is not cut short.
C9_WriteErrorIsolated ==
    /\ pc # "pool_abort"
    /\ \A t \in 1..Len(tasks) :
          Returned(t) =>
              LET call == tasks[t]
                  name == call.link.name
              IN  /\ call.write = "write_error" =>
                        /\ call.pc = "done"
                        /\ call.outcome.status = "failed"
                        /\ ~files[name].exists
                  /\ (call.fetched /\ call.write = "ok") =>
                        /\ call.pc = "done"
                        /\ call.outcome.status = "downloaded"
                        /\ files[name] = WholeFile(name)

\* a run and the run before it both read the whole listing
SameListing(i) == history[i - 1].crawl_ok /\ history[i].crawl_ok
\* run i wrote its ledger after downloading every link of the listing
DownloadedAll(i) ==
    /\ history[i].how = "saved"
    /\ history[i].downloaded = history[i].listed

\* C10 as stated: running run twice in a row against an unchanged listing
\* yields, on the second run, zero outcomes with status downloaded, and
\* every link of the listing gets an outcome with status skipped.
C10_SecondRunAllSkipped ==
    (/\ Len(history) >= 2
     /\ history[2].how # "pool"
     /\ SameListing(2)
     /\ DownloadedAll(1))
    => /\ history[2].downloaded = {}
       /\ history[2].skipped = history[2].listed

\* C10 amended: on a run that follows another, the links submitted are
\* exactly the listed links whose file is absent at filter time; a link
\* whose file is present gets no outcome at all, neither downloaded nor
\* skipped; and when the run before downloaded every link of the unchanged
\* listing, the run ends at "No new bulletins to download" with no outcome.
C10_SecondRunSubmitsOnlyAbsent ==
    \A i \in 2..Len(history) :
        LET r == history[i] IN
        /\ r.submitted = r.listed \ r.present
        /\ (r.downloaded \cup r.failed \cup r.skipped) \subseteq r.submitted
        /\ (SameListing(i) /\ DownloadedAll(i - 1)) =>
              /\ r.how = "nothing_new"
              /\ r.downloaded \cup r.failed \cup r.skipped = {}

C10_Witness ==
    /\ Len(history) >= 2
    /\ SameListing(2)
    /\ DownloadedAll(1)
    /\ Cardinality(history[1].listed) >= 2
    /\ history[2].how = "nothing_new"
    /\ history[2].present = history[2].listed

----------------------------------------------------------------------------
(* SpecLedger: create_csv_summary and get_existing_files on any ledger *)

\* the outcomes saved: a download that succeeded or failed
LedgerOutcomes ==
    {Outcome(n, file_size_mb(WholeFile(n)), Clock(0), "downloaded") :
        n \in 1..MaxListedNames}
    \cup {Outcome(n, 0, Clock(0), "failed") : n \in 1..MaxListedNames}
\* the lists run hands to create_csv_summary: one outcome per submitted
\* link, and the submitted links have distinct filenames
OutcomeLists ==
    {os \in UNION {[1..k -> LedgerOutcomes] : k \in 0..MaxListedNames} :
        \A i, j \in 1..Len(os) : os[i].file_name = os[j].file_name => i = j}

\* the CSV file before the first call: missing, left by the saves made
\* before (any set of filenames, each with a row), or damaged so that
\* reading raises after the rows that can still be read
LedgerStates ==
    {NoLedger} \cup
    {[create_csv_summary(NoLedger, os, WriteOk) EXCEPT !.corrupt = c] :
        os \in OutcomeLists, c \in BOOLEAN}

InitLedger ==
    /\ max_retries = MAX_RETRIES
    /\ cfg_max_pages = Unlimited
    /\ max_pages = cfg_max_pages
    /\ pc = "ledger"
    /\ netScript = <<>>
    /\ mrResult = [response |-> NoResponse, trace |-> <<>>, raised |-> FALSE]
    /\ IdleCrawl
    /\ site = <<>>
    /\ max_workers = MAX_WORKERS
    /\ files = [n \in Names |-> NoFile]
    /\ ledger \in LedgerStates
    /\ new_bulletins = <<>> /\ tasks = <<>> /\ download_results = <<>>
    /\ runsDone = 0 /\ history = <<>>
    /\ IdleAux

\* self.create_csv_summary(download_results)
CallCreateCsvSummary(os) ==
    /\ pc = "ledger"
    /\ ~lastSave.made
    /\ \E wr \in WriteResults(merged_rows(ledger, os)) :
          /\ ledger' = create_csv_summary(ledger, os, wr)
          /\ lastSave' = [made |-> TRUE, again |-> FALSE, before |-> ledger,
                          outcomes |-> os, write |-> wr.kind,
                          first_write |-> wr.kind]
    /\ existing_files' = NotLoaded
    /\ UNCHANGED <<checkVars, validateVars, cleanupVars, max_retries, max_pages,
                   cfg_max_pages, pc, crawlVars, fetchVars, site, max_workers,
                   files, new_bulletins, tasks, download_results, runsDone,
                   history>>

\* self.create_csv_summary(download_results) once more, right after
CallCreateCsvSummaryAgain ==
    /\ pc = "ledger"
    /\ lastSave.made /\ ~lastSave.again
    /\ \E wr \in WriteResults(merged_rows(ledger, lastSave.outcomes)) :
          /\ ledger' = create_csv_summary(ledger, lastSave.outcomes, wr)
          /\ lastSave' = [lastSave EXCEPT !.again = TRUE, !.before = ledger,
                                          !.write = wr.kind]
    /\ existing_files' = NotLoaded
    /\ UNCHANGED <<checkVars, validateVars, cleanupVars, max_retries, max_pages,
                   cfg_max_pages, pc, crawlVars, fetchVars, site, max_workers,
                   files, new_bulletins, tasks, download_results, runsDone,
                   history>>

\* self.get_existing_files()
CallGetExistingFiles ==
    /\ pc = "ledger"
    /\ ~existing_files.loaded
    /\ existing_files' = [loaded |-> TRUE, dict |-> get_existing_files(ledger)]
    /\ UNCHANGED <<lastSave, checkVars, validateVars, cleanupVars, max_retries, max_pages,
                   cfg_max_pages, pc, crawlVars, fetchVars, site, max_workers,
                   files, ledger, new_bulletins, tasks, download_results,
                   runsDone, history>>

NextLedger ==
    \/ \E os \in OutcomeLists : CallCreateCsvSummary(os)
    \/ CallCreateCsvSummaryAgain
    \/ CallGetExistingFiles

SpecLedger == InitLedger /\ [][NextLedger]_vars

----------------------------------------------------------------------------
(* SpecStore: one run on any output directory and any ledger *)

\* the output directory before the run: each listed file there or not
StoreFiles ==
    {f \in [Names -> {NoFile} \cup {WholeFile(n) : n \in Names}] :
        \A n \in Names :
            /\ f[n] \in {NoFile, WholeFile(n)}
            /\ n > MaxListedNames => f[n] = NoFile}

\* the ledger before the run: missing, or left by earlier saves
StoreLedgers == {l \in LedgerStates : ~l.corrupt}

InitStore ==
    /\ max_retries = MAX_RETRIES
    /\ cfg_max_pages = Unlimited
    /\ max_pages = cfg_max_pages
    /\ pc = "idle"
    /\ netScript = <<>>
    /\ mrResult = [response |-> NoResponse, trace |-> <<>>, raised |-> FALSE]
    /\ IdleCrawl
    /\ site \in {Paginate(l, TRUE) : l \in Listings}
    /\ max_workers = MAX_WORKERS
    /\ files \in StoreFiles
    /\ ledger \in StoreLedgers
    /\ new_bulletins = <<>> /\ tasks = <<>> /\ download_results = <<>>
    /\ runsDone = 0 /\ history = <<>>
    /\ IdleAux

\* scraper.run(), once
StoreRun == runsDone = 0 /\ CallGetDocumentLinks

NextStore ==
    \/ StoreRun
    \/ FetchPage
    \/ SiteAnchor
    \/ SitePager
    \/ RunFilter
    \/ \E t \in 1..Len(tasks) : DownloadBulletin(t)
    \/ \E t \in 1..Len(tasks) : Collect(t)
    \/ RunSave
    \/ RunRaise

SpecStore == InitStore /\ [][NextStore]_vars

----------------------------------------------------------------------------
(* SpecCheck: check_for_new_bulletins on any output directory and ledger *)

\* mutant: every filename with a ledger row counts as local
get_local_bulletins_any_row(dir, csv) ==
    {n \in Names : dir[n].exists}
    \cup {csv.rows[i].file_name : i \in 1..Len(csv.rows)}

\* get_local_bulletins(): the files of the output directory, and the
\* filenames of the CSV rows with status downloaded or skipped (the rows
\* read before an error, when reading raises)
get_local_bulletins(dir, csv) ==
    {n \in Names : dir[n].exists}
    \cup (IF ~csv.exists THEN {}
          ELSE {csv.rows[i].file_name :
                  i \in {j \in 1..Len(csv.rows) :
                            csv.rows[j].status \in {"downloaded", "skipped"}}})

\* for filename, url in remote_bulletins: if filename not in local_bulletins
RECURSIVE not_local(_, _)
not_local(remote, local) ==
    IF remote = <<>> THEN <<>>
    ELSE IF Head(remote).name \notin local
         THEN <<Head(remote)>> \o not_local(Tail(remote), local)
         ELSE not_local(Tail(remote), local)

\* the ledgers a check can find: rows of any status, readable or not
CheckOutcomes ==
    LedgerOutcomes
    \cup {Outcome(n, file_size_mb(WholeFile(n)), Existing, "skipped") :
            n \in 1..MaxListedNames}
CheckLedgers ==
    {NoLedger} \cup
    {[exists |-> TRUE, rows |-> sorted_rows(update_with(<<>>, os)),
      corrupt |-> c] :
        os \in {l \in UNION {[1..k -> CheckOutcomes] : k \in 0..MaxListedNames} :
                  \A i, j \in 1..Len(l) :
                      l[i].file_name = l[j].file_name => i = j},
        c \in BOOLEAN}

InitCheck ==
    /\ max_retries = MAX_RETRIES
    /\ cfg_max_pages \in PageConfigs
    /\ max_pages = cfg_max_pages
    /\ pc = "idle"
    /\ netScript = <<>>
    /\ mrResult = [response |-> NoResponse, trace |-> <<>>, raised |-> FALSE]
    /\ IdleCrawl
    /\ site \in {Paginate(l, TRUE) : l \in Listings}
    /\ max_workers = MAX_WORKERS
    /\ files \in StoreFiles
    /\ ledger \in CheckLedgers
    /\ new_bulletins = <<>> /\ tasks = <<>> /\ download_results = <<>>
    /\ runsDone = 0 /\ history = <<>>
    /\ IdleAux

\* check_for_new_bulletins(limit) up to local_bulletins
CallCheckForNewBulletins(lim) ==
    /\ pc = "idle"
    /\ ~check_results.made
    /\ local_bulletins' = get_local_bulletins(files, ledger)
    /\ limit' = lim
    /\ pc' = "check_local"
    /\ UNCHANGED <<ledgerVars, check_results, validateVars, cleanupVars, max_retries,
                   max_pages, cfg_max_pages, caller, original_max_pages,
                   page_num, bulletin_links, links_found, pos, crawlLog,
                   firstSeen, result, fetchVars>>
    /\ UNCHANGED runVars

\* remote_bulletins = self.get_remote_bulletins(limit)
CheckRemote == pc = "check_local" /\ CallGetRemoteBulletins(limit)

\* check_for_new_bulletins from the return of get_remote_bulletins on
CheckReturn ==
    /\ pc = "returned" /\ caller = "check"
    /\ ~check_results.made
    /\ check_results' =
          [made |-> TRUE,
           remote |-> result,
           total_remote_checked |-> Len(result),
           total_local |-> Cardinality(local_bulletins),
           new_bulletins_count |-> Len(not_local(result, local_bulletins)),
           new_bulletins |-> not_local(result, local_bulletins)]
    /\ pc' = "idle"
    /\ UNCHANGED <<ledgerVars, local_bulletins, validateVars, cleanupVars, max_retries,
                   max_pages, cfg_max_pages, crawlVars, fetchVars>>
    /\ UNCHANGED runVars

NextCheck ==
    \/ \E lim \in Limits : CallCheckForNewBulletins(lim)
    \/ CheckRemote
    \/ FetchPage
    \/ SiteAnchor
    \/ SitePager
    \/ CrawlExit
    \/ GetRemoteBulletinsReturn
    \/ CheckReturn

SpecCheck == InitCheck /\ [][NextCheck]_vars

----------------------------------------------------------------------------
(* SpecValidate: validate_pdf_files and _is_valid_pdf_flexible on one file *)

\* a file is its bytes, one character each, and the step of the
\* inspection at which the operating system refuses it ("no": none)
HEADER_BYTES == 1024
MARKER_WINDOW == 100
MIN_PLAUSIBLE_SIZE == 1024
MaxFileSize == 2000

PDF_SIGNATURE == <<"%", "P", "D", "F">>
PDF_MARKER == <<"P", "D", "F">>
PS_SIGNATURE == <<"%", "!", "P", "S">>

st_size(f) == Len(f.content)

\* bytes.startswith
startswith(bytes, prefix) ==
    /\ Len(bytes) >= Len(prefix)
    /\ SubSeq(bytes, 1, Len(prefix)) = prefix

\* the bytes operator "in"
contains(bytes, part) ==
    \E i \in 1..(Len(bytes) - Len(part) + 1) :
        SubSeq(bytes, i, i + Len(part) - 1) = part

\* mutant: no fallback on the size, an unrecognised file is invalid
is_valid_pdf_strict(f) ==
    IF f.unreadable = "stat" THEN FALSE
    ELSE IF st_size(f) = 0 THEN FALSE
    ELSE IF f.unreadable \in {"open", "read"} THEN FALSE
    ELSE LET header == SubSeq(f.content, 1, Min(st_size(f), HEADER_BYTES))
         IN  \/ startswith(header, PDF_SIGNATURE)
             \/ contains(SubSeq(header, 1, Min(Len(header), MARKER_WINDOW)),
                         PDF_MARKER)
             \/ startswith(header, PS_SIGNATURE)

\* _is_valid_pdf_flexible(file_path)
is_valid_pdf_flexible(f) ==
    IF f.unreadable = "stat" THEN FALSE
    ELSE IF st_size(f) = 0 THEN FALSE
    ELSE IF f.unreadable \in {"open", "read"} THEN FALSE
    ELSE LET header == SubSeq(f.content, 1, Min(st_size(f), HEADER_BYTES))
         IN  IF startswith(header, PDF_SIGNATURE) THEN TRUE
             ELSE IF contains(SubSeq(header, 1,
                                     Min(Len(header), MARKER_WINDOW)),
                              PDF_MARKER) THEN TRUE
             ELSE IF startswith(header, PS_SIGNATURE) THEN TRUE
             ELSE IF st_size(f) < MIN_PLAUSIBLE_SIZE THEN FALSE
             ELSE TRUE

\* validate_pdf_files(): the entry of one file of the output directory
validation_result(f) ==
    IF f.unreadable = "stat" THEN FALSE
    ELSE IF st_size(f) = 0 THEN FALSE
    ELSE is_valid_pdf_flexible(f)

\* the bytes of a file: a prefix, the marker at one place or nowhere
\* (at = 0), filler elsewhere
Bytes(size, prefix, at) ==
    [i \in 1..size |->
        IF i <= Len(prefix) THEN prefix[i]
        ELSE IF at > 0 /\ i \in at..(at + 2) THEN PDF_MARKER[i - at + 1]
        ELSE "x"]

FileSizes ==
    {0, 1, 3, 4, 5, 99, 100, 101, 102, 500, 1023, 1024, 1025, 2000,
     MaxFileSize}
Prefixes ==
    {<<>>, PDF_SIGNATURE, PS_SIGNATURE, PDF_MARKER, <<"%", "P", "D">>,
     <<"%", "!", "P">>}
MarkerPlaces == {0, 5, 97, 98, 99, 100, 101, 600, 1022, 1500}
Inspections == {"no", "stat", "open", "read"}

PdfFiles ==
    {[content |-> Bytes(size, prefix, at), unreadable |-> u] :
        size \in FileSizes,
        prefix \in Prefixes,
        at \in MarkerPlaces,
        u \in Inspections}

InitValidate ==
    /\ max_retries = MAX_RETRIES
    /\ cfg_max_pages = Unlimited
    /\ max_pages = cfg_max_pages
    /\ pc = "idle"
    /\ netScript = <<>>
    /\ mrResult = [response |-> NoResponse, trace |-> <<>>, raised |-> FALSE]
    /\ IdleCrawl
    /\ site = Paginate(<<>>, TRUE)
    /\ max_workers = MAX_WORKERS
    /\ files = [n \in Names |-> NoFile]
    /\ ledger = NoLedger
    /\ new_bulletins = <<>> /\ tasks = <<>> /\ download_results = <<>>
    /\ runsDone = 0 /\ history = <<>>
    /\ IdleAux

\* validate_pdf_files() reaching one file of the directory
ValidatePdfFile(f) ==
    /\ pc = "idle"
    /\ pdf_file = NoPdf
    /\ pdf_file' = f
    /\ is_valid' = validation_result(f)
    /\ UNCHANGED <<ledgerVars, checkVars, cleanupVars, max_retries, max_pages,
                   cfg_max_pages, pc, crawlVars, fetchVars>>
    /\ UNCHANGED runVars

\* _is_valid_pdf_flexible(file_path) called on its own
CallIsValidPdfFlexible(f) ==
    /\ pc = "idle"
    /\ pdf_file = NoPdf
    /\ pdf_file' = f
    /\ is_valid' = is_valid_pdf_flexible(f)
    /\ UNCHANGED <<ledgerVars, checkVars, cleanupVars, max_retries, max_pages,
                   cfg_max_pages, pc, crawlVars, fetchVars>>
    /\ UNCHANGED runVars

NextValidate ==
    \/ \E f \in PdfFiles : ValidatePdfFile(f)
    \/ \E f \in PdfFiles : CallIsValidPdfFlexible(f)

SpecValidate == InitValidate /\ [][NextValidate]_vars

----------------------------------------------------------------------------
(* SpecCleanup: cleanup_invalid_files on any output directory *)

\* what the validator finds in a stored file: an empty file is empty, any
\* other stored file begins like the PDF document it was written from; the
\* validator reads HEADER_BYTES of it and compares its size with
\* MIN_PLAUSIBLE_SIZE, the bytes beyond MaxFileSize are left out
stored_pdf(file, inspection) ==
    [content |-> Bytes(Min(file.bytes, MaxFileSize),
                       IF file.bytes >= Len(PDF_SIGNATURE)
                       THEN PDF_SIGNATURE ELSE <<>>, 0),
     unreadable |-> inspection]

\* validate_pdf_files(): filename -> verdict, for the files of output_dir
validate_pdf_files(dir, inspections) ==
    [n \in {m \in Names : dir[m].exists} |->
        validation_result(stored_pdf(dir[n], inspections[n]))]

\* the filenames of a set as a list
RECURSIVE listed(_)
listed(S) ==
    IF S = {} THEN <<>>
    ELSE LET n == CHOOSE x \in S : \A y \in S : x <= y
         IN  <<n>> \o listed(S \ {n})

\* mutant: dry_run is not looked at
unlinked_always(dry_run, invalid_files, unlinks) ==
    {n \in invalid_files : unlinks[n] = "ok"}

\* the files cleanup_invalid_files removes: none on a dry run, otherwise
\* the invalid files whose file_path.unlink() does not raise
unlinked(dry_run, invalid_files, unlinks) ==
    IF dry_run THEN {}
    ELSE {n \in invalid_files : unlinks[n] = "ok"}

\* what stat, open and read can do while a stored file is validated
CleanupInspections == {"no", "stat"}

\* cleanup_invalid_files(dry_run)
CleanupInvalidFiles(dry_run) ==
    /\ pc = "idle"
    /\ ~lastCleanup.made
    /\ \E inspections \in {i \in [Names -> CleanupInspections] :
                              \A n \in Names : ~files[n].exists => i[n] = "no"},
          unlinks \in {u \in [Names -> UnlinkOutcomes] :
                          \A n \in Names : ~files[n].exists => u[n] = "ok"} :
          LET validation_results == validate_pdf_files(files, inspections)
              invalid_files == {n \in DOMAIN validation_results :
                                  ~validation_results[n]}
              gone == unlinked(dry_run, invalid_files, unlinks)
          IN  /\ files' = [n \in Names |->
                              IF n \in gone THEN NoFile ELSE files[n]]
              /\ lastCleanup' =
                    [made |-> TRUE, dry_run |-> dry_run, before |-> files,
                     ledger_before |-> ledger, inspected |-> inspections,
                     attempted |-> IF dry_run THEN {} ELSE invalid_files,
                     deleted |-> gone,
                     returned |-> listed(invalid_files)]
    /\ UNCHANGED <<ledgerVars, checkVars, validateVars, max_retries,
                   max_pages, cfg_max_pages, pc, crawlVars, fetchVars>>
    /\ UNCHANGED <<site, max_workers, ledger, new_bulletins, tasks,
                   download_results, runsDone, history>>

\* the directories and ledgers a cleanup can find
CleanupDirs ==
    {d \in [Names -> {NoFile} \cup UNION {FileStates(n) : n \in Names}] :
        \A n \in Names :
            /\ d[n] \in FileStates(n)
            /\ n > MaxListedNames => d[n] = NoFile}
CleanupLedgers ==
    {l \in StoreLedgers :
        \A i \in 1..Len(l.rows) : /\ l.rows[i].file_name = 1
                                  /\ l.rows[i].status = "downloaded"}

InitCleanup ==
    /\ max_retries = MAX_RETRIES
    /\ cfg_max_pages = Unlimited
    /\ max_pages = cfg_max_pages
    /\ pc = "idle"
    /\ netScript = <<>>
    /\ mrResult = [response |-> NoResponse, trace |-> <<>>, raised |-> FALSE]
    /\ IdleCrawl
    /\ site = Paginate(<<>>, TRUE)
    /\ max_workers = MAX_WORKERS
    /\ files \in CleanupDirs
    /\ ledger \in CleanupLedgers
    /\ new_bulletins = <<>> /\ tasks = <<>> /\ download_results = <<>>
    /\ runsDone = 0 /\ history = <<>>
    /\ IdleAux

NextCleanup == \E dry_run \in BOOLEAN : CleanupInvalidFiles(dry_run)

SpecCleanup == InitCleanup /\ [][NextCleanup]_vars

----------------------------------------------------------------------------
(* The standalone script (src/main.py): get_bulletin_links *)

MAIN_MAX_RETRIES == 3
MAIN_MAX_WORKERS == 8
MAIN_MAX_PAGES == 100

\* the inner "while retries < MAX_RETRIES" of get_bulletin_links: TRUE when
\* it is left by the break on status 200, FALSE when retries == MAX_RETRIES
RECURSIVE main_get(_, _)
main_get(script, retries) ==
    IF retries >= max_retries THEN FALSE
    ELSE IF script[retries + 1] = "200" THEN TRUE
    ELSE main_get(script, retries + 1)

\* the href of a pager anchor: no href attribute, no page parameter in the
\* query, a page parameter that is not a number, or page=value
NoHref == [present |-> FALSE, has_page |-> FALSE, numeric |-> FALSE,
           value |-> 0]
HrefNoPage == [NoHref EXCEPT !.present = TRUE]
HrefBadPage == [HrefNoPage EXCEPT !.has_page = TRUE]
HrefPage(k) == [HrefBadPage EXCEPT !.numeric = TRUE, !.value = k]
PageTargets == {0, 1, MAIN_MAX_PAGES}
Hrefs == {NoHref, HrefNoPage, HrefBadPage} \cup {HrefPage(k) : k \in PageTargets}

\* the pagers of the listing, their next anchor carrying an href
MainPagers ==
    {NoPagination,
     [present |-> TRUE,
      anchors |-> <<[li_next |-> FALSE, text |-> TextPrevious,
                     href |-> HrefPage(0)]>>]}
    \cup {[present |-> TRUE,
           anchors |-> <<[li_next |-> FALSE, text |-> TextPrevious,
                          href |-> HrefPage(0)],
                         [li_next |-> li, text |-> TextNext, href |-> h]>>] :
            li \in BOOLEAN, h \in Hrefs}

\* next_page_link: the first anchor with "Next" in an li of class
\* pager__item--next, else the first anchor with "Next"; 0 when there is none
next_page_link(pager) ==
    LET in_item == {i \in 1..Len(pager.anchors) :
                      /\ pager.anchors[i].li_next
                      /\ ContainsNext(pager.anchors[i].text)}
        plain == {i \in 1..Len(pager.anchors) :
                      ContainsNext(pager.anchors[i].text)}
        first(S) == CHOOSE i \in S : \A j \in S : i <= j
    IN  IF ~pager.present THEN 0
        ELSE IF in_item # {} THEN first(in_item)
        ELSE IF plain # {} THEN first(plain)
        ELSE 0

\* the page index after a page with a next link (main.py:98-111)
next_page_num(p, href) ==
    IF href.present
    THEN IF href.has_page
         THEN IF href.numeric THEN href.value ELSE p + 1
         ELSE p + 1
    ELSE p + 1

\* url = BASE_URL if page_num == 0 else f"{BASE_URL}?page={page_num}"
page_url(p) == IF p = 0 THEN <<"BASE_URL">> ELSE <<"BASE_URL", "?page=", p>>

\* main's call of get_bulletin_links (main.py:233)
MainGetBulletinLinks ==
    /\ pc = "idle"
    /\ caller' = "main"
    /\ limit' = 0
    /\ ResetCrawl
    /\ pc' = "crawl"
    /\ UNCHANGED <<auxVars, max_retries, max_pages, cfg_max_pages,
                   original_max_pages, fetchVars>>
    /\ UNCHANGED runVars

\* top of "while page_num < max_pages" in get_bulletin_links: the fetch
\* with its retries; break when they are used up
MainFetchPage ==
    /\ pc = "crawl" /\ caller = "main"
    /\ page_num < MAIN_MAX_PAGES
    /\ \E ok \in {main_get(script, 0) : script \in Scripts(max_retries)} :
         /\ crawlLog' = Append(crawlLog,
                [page |-> page_num, ok |-> ok, fresh |-> {}, next |-> FALSE,
                 url |-> page_url(page_num)])
         /\ IF ~ok
            THEN /\ result' = bulletin_links
                 /\ pc' = "returned"
                 /\ UNCHANGED <<links_found, pos>>
            ELSE /\ links_found' = FALSE
                 /\ pos' = 0
                 /\ pc' = "links"
                 /\ UNCHANGED result
    /\ UNCHANGED <<auxVars, max_retries, max_pages, cfg_max_pages, caller,
                   limit, original_max_pages, page_num, bulletin_links,
                   firstSeen, fetchVars>>
    /\ UNCHANGED runVars

\* after the loop over the anchors in get_bulletin_links (main.py:70-114)
MainPageEnd(pager) ==
    /\ pc = "links" /\ caller = "main"
    /\ crawlLog' = SetLogLast([LogLast EXCEPT
                        !.next = next_page_link(pager) # 0])
    /\ IF ~links_found \/ next_page_link(pager) = 0
       THEN /\ result' = bulletin_links
            /\ pc' = "returned"
            /\ UNCHANGED page_num
       ELSE /\ page_num' =
                  next_page_num(page_num,
                                pager.anchors[next_page_link(pager)].href)
            /\ pc' = "crawl"
            /\ UNCHANGED result
    /\ UNCHANGED <<auxVars, max_retries, max_pages, cfg_max_pages, caller,
                   limit, original_max_pages, bulletin_links, links_found,
                   pos, firstSeen, fetchVars>>
    /\ UNCHANGED runVars

\* the while condition of get_bulletin_links is false
MainCrawlExit ==
    /\ pc = "crawl" /\ caller = "main"
    /\ ~(page_num < MAIN_MAX_PAGES)
    /\ result' = bulletin_links
    /\ pc' = "returned"
    /\ UNCHANGED <<auxVars, max_retries, max_pages, cfg_max_pages, caller,
                   limit, original_max_pages, page_num, bulletin_links,
                   links_found, pos, crawlLog, firstSeen, fetchVars>>
    /\ UNCHANGED runVars

----------------------------------------------------------------------------
(* SpecLoops: one crawl, by get_document_links or by get_bulletin_links, *)
(* over a listing that serves any page; SpecLoopsFair: the same, the     *)
(* crawl being run to its end                                            *)

InitLoops ==
    /\ max_retries \in {MAX_RETRIES, MAIN_MAX_RETRIES}
    /\ cfg_max_pages \in {Unlimited, 1, MaxPagesBound}
    /\ max_pages = cfg_max_pages
    /\ pc = "idle"
    /\ netScript = <<>>
    /\ mrResult = [response |-> NoResponse, trace |-> <<>>, raised |-> FALSE]
    /\ IdleCrawl
    /\ site = <<>> /\ max_workers = MAX_WORKERS
    /\ IdleRun

\* the crawl asks for at most this many pages
MaxCrawlPages == MaxListedNames + 2
\* the listing has MaxListedNames documents and serves any page of them
LoopAnchor ==
    \E name \in 1..MaxListedNames : pos < MaxLinksPerPage /\ ExtractLink(name)

ScraperFetchPage ==
    caller = "run" /\ Len(crawlLog) < MaxCrawlPages /\ FetchPage
ScriptFetchPage == Len(crawlLog) < MaxCrawlPages /\ MainFetchPage
ScraperPager == caller = "run" /\ ServePager
ScriptPager == \E pager \in MainPagers : MainPageEnd(pager)
ScraperExit == caller = "run" /\ CrawlExit

NextLoops ==
    \/ CallGetDocumentLinks
    \/ MainGetBulletinLinks
    \/ ScraperFetchPage
    \/ ScriptFetchPage
    \/ LoopAnchor
    \/ ScraperPager
    \/ ScriptPager
    \/ ScraperExit
    \/ MainCrawlExit

SpecLoops == InitLoops /\ [][NextLoops]_vars

\* the interpreter keeps running the loop it is in
SpecLoopsFair == SpecLoops /\ WF_vars(NextLoops)

----------------------------------------------------------------------------
(* SpecScript: the standalone script (main.main) against one listing *)

\* the dictionary main.download_bulletin returns, and None
MainResult(name, size, status) ==
    [file_name |-> name, file_size_mb |-> size, status |-> status]
None == MainResult(0, 0, "none")

\* what one pass of "while retries < MAX_RETRIES" in main.download_bulletin
\* can do: status 200 and the body written, status 200 and open() raising,
\* status 200 and a write raising after the file was created, another
\* status, requests.get raising
MainAttempts == {"ok", "open_error", "write_error", "status", "exception"}

\* the retry loop of main.download_bulletin from pass retries on, the file
\* being as the passes before left it: what it returns, the file it
\* leaves, whether a write raised
RECURSIVE main_download_bulletin(_, _, _, _, _)
main_download_bulletin(name, file, script, retries, write_raised) ==
    IF retries >= max_retries
    THEN [returns |-> None, file |-> file, write_raised |-> write_raised]
    ELSE IF script[retries + 1] = "ok"
    THEN [returns |-> MainResult(name, file_size_mb(WholeFile(name)),
                                 "downloaded"),
          file |-> WholeFile(name), write_raised |-> write_raised]
    ELSE IF script[retries + 1] = "write_error"
    THEN main_download_bulletin(name, PartialFile(name), script,
                                retries + 1, TRUE)
    ELSE main_download_bulletin(name, file, script, retries + 1,
                                write_raised)

\* download_results = [result for result in download_results if result]
RECURSIVE not_none(_)
not_none(results) ==
    IF results = <<>> THEN <<>>
    ELSE IF Head(results) # None
         THEN <<Head(results)>> \o not_none(Tail(results))
         ELSE not_none(Tail(results))

\* the rows main.create_csv_summary writes, sizes with two decimals
MainCsvRows(results) ==
    [i \in 1..Len(results) |->
        [file_name |-> results[i].file_name,
         file_size_mb |-> Str(results[i].file_size_mb),
         status |-> results[i].status]]

\* the listing's pages as the script sees them: the Next anchor of page i
\* (counted from 1) has the href ?page=i
MainSite(listing) ==
    LET pages == Paginate(listing, TRUE) IN
    [i \in 1..Len(pages) |->
        [anchors |-> pages[i].anchors,
         pager |-> [present |-> pages[i].pager.present,
                    anchors |->
                       [j \in 1..Len(pages[i].pager.anchors) |->
                           [li_next |-> pages[i].pager.anchors[j].li_next,
                            text |-> pages[i].pager.anchors[j].text,
                            href |-> HrefPage(i)]]]]]

InitScript ==
    /\ max_retries = MAIN_MAX_RETRIES
    /\ cfg_max_pages = Unlimited
    /\ max_pages = cfg_max_pages
    /\ pc = "idle"
    /\ netScript = <<>>
    /\ mrResult = [response |-> NoResponse, trace |-> <<>>, raised |-> FALSE]
    /\ IdleCrawl
    /\ site \in {MainSite(l) : l \in Listings}
    /\ max_workers = MAIN_MAX_WORKERS
    /\ files \in StoreFiles
    /\ ledger = NoLedger
    /\ new_bulletins = <<>> /\ tasks = <<>> /\ download_results = <<>>
    /\ runsDone = 0 /\ history = <<>>
    /\ IdleAux

ScriptSitePager ==
    /\ pos = Len(SitePage.anchors)
    /\ MainPageEnd(SitePage.pager)

\* main, from the return of get_bulletin_links to executor.map
MainSubmit ==
    /\ pc = "returned" /\ caller = "main"
    /\ IF result = <<>>
       THEN \* "No bulletin links found, exiting."
            /\ pc' = "exited"
            /\ UNCHANGED tasks
       ELSE /\ tasks' = Dispatch([i \in 1..Len(result) |->
                                     Task(result[i], "queued")])
            /\ pc' = "pool"
    /\ UNCHANGED <<auxVars, max_retries, max_pages, cfg_max_pages, crawlVars,
                   fetchVars, site, max_workers, files, ledger,
                   new_bulletins, download_results, runsDone, history>>

\* main.download_bulletin(bulletin_info), run by a worker thread
MainDownloadBulletin(t) ==
    /\ pc = "pool"
    /\ t \in 1..Len(tasks)
    /\ tasks[t].pc = "running"
    /\ LET bulletin_name == tasks[t].link.name
           me == [tasks[t] EXCEPT !.existed = files[bulletin_name].exists]
       IN  IF files[bulletin_name].exists
           THEN /\ Return(t, MainResult(bulletin_name,
                                        file_size_mb(files[bulletin_name]),
                                        "skipped"), me)
                /\ UNCHANGED files
           ELSE \E script \in [1..max_retries -> MainAttempts] :
                LET did == main_download_bulletin(bulletin_name,
                               files[bulletin_name], script, 0, FALSE)
                IN  /\ files' = [files EXCEPT ![bulletin_name] = did.file]
                    /\ Return(t, did.returns,
                              [me EXCEPT !.write =
                                  IF did.write_raised THEN "write_error"
                                  ELSE IF did.returns # None THEN "ok"
                                  ELSE "none"])
    /\ UNCHANGED <<auxVars, max_retries, max_pages, cfg_max_pages, pc,
                   crawlVars, fetchVars, site, max_workers, ledger,
                   new_bulletins, download_results, runsDone, history>>

\* main, from the end of executor.map on: drop the None results, write
\* the summary (open() raising ends the script with the exception)
MainSave ==
    /\ pc = "pool"
    /\ \A t \in 1..Len(tasks) : tasks[t].pc = "done"
    /\ download_results' =
          not_none([t \in 1..Len(tasks) |-> tasks[t].outcome])
    /\ \E wr \in {WriteOk, OpenError} :
          IF wr = WriteOk
          THEN /\ ledger' = [exists |-> TRUE,
                             rows |-> MainCsvRows(download_results'),
                             corrupt |-> FALSE]
               /\ pc' = "exited"
          ELSE /\ UNCHANGED ledger
               /\ pc' = "raised"
    /\ UNCHANGED <<auxVars, max_retries, max_pages, cfg_max_pages, crawlVars,
                   fetchVars, site, max_workers, files, new_bulletins, tasks,
                   runsDone, history>>

NextScript ==
    \/ MainGetBulletinLinks
    \/ MainFetchPage
    \/ SiteAnchor
    \/ ScriptSitePager
    \/ MainSubmit
    \/ \E t \in 1..Len(tasks) : MainDownloadBulletin(t)
    \/ MainSave

SpecScript == InitScript /\ [][NextScript]_vars

----------------------------------------------------------------------------
(* SpecMaintain: runs and a cleanup, in any order, from an empty output *)
(* directory and no ledger                                              *)

InitMaintain ==
    /\ max_retries = MAX_RETRIES
    /\ cfg_max_pages = Unlimited
    /\ max_pages = cfg_max_pages
    /\ pc = "idle"
    /\ netScript = <<>>
    /\ mrResult = [response |-> NoResponse, trace |-> <<>>, raised |-> FALSE]
    /\ IdleCrawl
    /\ site \in {Paginate(l, TRUE) : l \in Listings}
    /\ max_workers = MAX_WORKERS
    /\ IdleRun

NextMaintain ==
    \/ RunCrawl
    \/ FetchPage
    \/ SiteAnchor
    \/ SitePager
    \/ RunFilter
    \/ \E t \in 1..Len(tasks) : DownloadBulletin(t)
    \/ \E t \in 1..Len(tasks) : Collect(t)
    \/ RunSave
    \/ RunRaise
    \/ \E dry_run \in BOOLEAN : CleanupInvalidFiles(dry_run)

SpecMaintain == InitMaintain /\ [][NextMaintain]_vars

----------------------------------------------------------------------------
(* Claims about the ledger *)

RowNames(rows) == {rows[i].file_name : i \in 1..Len(rows)}
RowOf(rows, name) == rows[CHOOSE i \in 1..Len(rows) : rows[i].file_name = name]
NoDuplicateRows(rows) ==
    \A i, j \in 1..Len(rows) : rows[i].file_name = rows[j].file_name => i = j
\* the last outcome of a list for a filename
LastOutcome(os, name) ==
    os[CHOOSE i \in 1..Len(os) :
          /\ os[i].file_name = name
          /\ \A j \in (i + 1)..Len(os) : os[j].file_name # name]
\* the row a save owes to a filename
RowOwed(name) ==
    IF name \in RowNames(lastSave.outcomes)
    THEN CsvRow(LastOutcome(lastSave.outcomes, name))
    ELSE RowOf(lastSave.before.rows, name)
\* the filenames a save owes a row to
NamesOwed == RowNames(lastSave.before.rows) \cup RowNames(lastSave.outcomes)

\* the ledger is the merge of the ledger before and the outcomes saved
Merged ==
    /\ ledger.exists
    /\ NoDuplicateRows(ledger.rows)
    /\ RowNames(ledger.rows) = NamesOwed
    /\ \A name \in NamesOwed : RowOf(ledger.rows, name) = RowOwed(name)

\* C11 as stated: after create_csv_summary(new_outcomes) the ledger holds
\* exactly one row for every filename of the ledger before or of
\* new_outcomes and no other row, the row of a filename of new_outcomes is
\* its most recent outcome and every other row is unchanged; and the ledger
\* never holds two rows with the same filename.
C11_SaveMerges ==
    /\ NoDuplicateRows(ledger.rows)
    /\ lastSave.made => Merged

\* C11 amended: the ledger never holds two rows with the same filename;
\* after a create_csv_summary whose write succeeds it is the merge the
\* claim describes; when the file cannot be opened for writing it is as it
\* was before; when the write fails later it holds only the rows written
\* before the error, each the row the merge owes, and the rows of all
\* filenames after them are lost, those of the ledger before included.
C11_SaveMergesWhenWritten ==
    /\ NoDuplicateRows(ledger.rows)
    /\ lastSave.made =>
          /\ lastSave.write = "ok" => Merged
          /\ lastSave.write = "open_error" => ledger = lastSave.before
          /\ lastSave.write = "write_error" =>
                /\ ledger.exists
                /\ RowNames(ledger.rows) \subseteq NamesOwed
                /\ RowNames(ledger.rows) # NamesOwed
                /\ \A name \in RowNames(ledger.rows) :
                      /\ RowOf(ledger.rows, name) = RowOwed(name)
                      /\ \A lost \in NamesOwed \ RowNames(ledger.rows) :
                            name < lost

\* a save that overwrote one row and kept another
C11_Witness ==
    /\ lastSave.made /\ ~lastSave.again
    /\ lastSave.write = "ok"
    /\ \E name \in RowNames(lastSave.before.rows) \cap RowNames(lastSave.outcomes) :
          RowOf(ledger.rows, name) # RowOf(lastSave.before.rows, name)
    /\ RowNames(lastSave.before.rows) \ RowNames(lastSave.outcomes) # {}

\* the rows after the header are in strictly ascending filename order
Ascending(rows) ==
    \A i \in 1..(Len(rows) - 1) : rows[i].file_name < rows[i + 1].file_name
\* get_existing_files was called after one save into an absent ledger
ReloadedFirstSave ==
    /\ existing_files.loaded
    /\ lastSave.made /\ ~lastSave.again
    /\ ~lastSave.before.exists

C13_SaveTwiceSame ==
    lastSave.again => ledger = lastSave.before

\* C13 amended: the ledger after the second call is identical to the
\* ledger after the first when the writes of both calls succeed, and when
\* the second call cannot open the file; a write error in either call can
\* leave the two ledgers different.
C13_SaveTwiceSameWhenWritten ==
    lastSave.again =>
        /\ (lastSave.first_write = "ok" /\ lastSave.write = "ok") =>
              ledger = lastSave.before
        /\ lastSave.write = "open_error" => ledger = lastSave.before

\* a second save of the same outcomes over a ledger that had other rows
C13_Witness ==
    /\ lastSave.again
    /\ lastSave.first_write = "ok" /\ lastSave.write = "ok"
    /\ lastSave.outcomes # <<>>
    /\ RowNames(ledger.rows) \ RowNames(lastSave.outcomes) # {}
    /\ ledger = lastSave.before

\* C14: if reading the ledger fails, because the file is missing or because
\* an error is raised at any point while reading a corrupt file,
\* get_existing_files returns the empty mapping: no rows at all, the rows
\* read before the error included.
C14_ReadFailureGivesEmpty ==
    (existing_files.loaded /\ (~ledger.exists \/ ledger.corrupt)) =>
        existing_files.dict = <<>>

----------------------------------------------------------------------------
(* Claims about the worker pool *)

\* C15: in one execution of run the ledger is written at most once, only
\* by the orchestrating thread, and only after every download_bulletin task
\* submitted to the pool has completed: the ledger changes only in the step
\* of the orchestrating thread that ends the run, taken when no task is
\* queued or running.
C15_LedgerWrittenOnceAfterPool ==
    [][ledger' # ledger =>
          /\ pc = "pool" /\ pc' = "idle"
          /\ runsDone' = runsDone + 1
          /\ tasks # <<>>
          /\ \A t \in 1..Len(tasks) : tasks[t].pc = "done"]_vars

\* a run of two downloads has written the ledger
C15_Witness ==
    /\ pc = "idle"
    /\ history # <<>>
    /\ history[Len(history)].how = "saved"
    /\ Cardinality(history[Len(history)].submitted) >= 2
    /\ ledger.exists
    /\ RowNames(ledger.rows) = history[Len(history)].submitted

InFlight == {t \in 1..Len(tasks) : ~Returned(t)}

\* C16: at every moment of run, no two in-flight download_bulletin tasks
\* have the same target filename, and the number of download_bulletin tasks
\* executing at once never exceeds max_workers.
C16_DistinctTargetsBoundedWorkers ==
    /\ \A t, u \in InFlight :
          tasks[t].link.name = tasks[u].link.name => t = u
    /\ Cardinality(Running) <= max_workers

\* a listing with two anchors for one filename, a pool of one worker: one
\* call is executed while another waits
C16_Witness ==
    /\ pc = "pool"
    /\ Len(crawlLog) = Len(site)
    /\ \A k \in 1..Len(crawlLog) : crawlLog[k].ok
    /\ \E p, q \in 1..Len(site) :
          \E i \in DOMAIN site[p].anchors, j \in DOMAIN site[q].anchors :
              /\ <<p, i>> # <<q, j>>
              /\ site[p].anchors[i] = site[q].anchors[j]
    /\ Cardinality(Running) = max_workers
    /\ \E t \in InFlight : tasks[t].pc = "queued"

\* C17: for every combination of per-file fetch failures and filesystem
\* errors during downloads (an error while writing the body and an error
\* while deleting the partial file included), run does not terminate with
\* an exception: it collects exactly one outcome for every link submitted
\* to the pool and then saves the ledger containing those outcomes.
C17_RunNeverRaises ==
    /\ pc # "pool_abort"
    /\ \A t \in 1..Len(tasks) : tasks[t].pc # "raised"
    /\ \A i \in 1..Len(history) :
          /\ history[i].how # "raised"
          /\ history[i].how = "saved" =>
                history[i].downloaded \cup history[i].failed
                    \cup history[i].skipped = history[i].submitted

----------------------------------------------------------------------------
(* Claims about the reconciliation with the output directory *)

RunOutcomes(r) == r.downloaded \cup r.failed \cup r.skipped

\* C18: run submits a link for download if and only if no file with its
\* filename exists in the output directory at filter time, whatever the
\* ledger records for that filename; a link whose file is present is not
\* submitted and produces no outcome.
C18_SubmitsIffFileAbsent ==
    \A i \in 1..Len(history) :
        LET r == history[i] IN
        /\ \A name \in r.listed : name \in r.submitted <=> name \notin r.present
        /\ r.submitted \subseteq r.listed
        /\ RunOutcomes(r) \cap r.present = {}

\* a run that submitted a link recorded as downloaded whose file was
\* absent, and left out a link without ledger row whose file was present
C18_Witness ==
    /\ history # <<>>
    /\ history[1].how \in {"saved", "raised"}
    /\ \E name \in history[1].listed :
          /\ name \in history[1].ledger_downloaded
          /\ name \notin history[1].present
          /\ name \in history[1].submitted
    /\ \E name \in history[1].listed :
          /\ name \notin history[1].ledgered
          /\ name \in history[1].present
          /\ name \notin history[1].submitted
          /\ name \notin RunOutcomes(history[1])

\* the ledger has a row with one of these statuses for the filename
Recorded(name, statuses) ==
    \E i \in 1..Len(ledger.rows) :
        /\ ledger.rows[i].file_name = name
        /\ ledger.rows[i].status \in statuses
\* the checked links that are new by the claim's rule
NewByRule ==
    {i \in 1..Len(check_results.remote) :
        /\ ~files[check_results.remote[i].name].exists
        /\ ~Recorded(check_results.remote[i].name, {"downloaded", "skipped"})}

\* C19: check_for_new_bulletins reports a checked remote link as new if
\* and only if its filename is neither a file of the output directory nor
\* the key of a ledger row with status downloaded or skipped; a filename
\* whose only row has status failed and whose file is absent is reported
\* as new; new_bulletins_count is the number of such links.
C19_NewIffUnknownLocally ==
    check_results.made =>
        /\ \A i \in 1..Len(check_results.remote) :
              (\E k \in 1..Len(check_results.new_bulletins) :
                  check_results.new_bulletins[k] = check_results.remote[i])
              <=> i \in NewByRule
        /\ check_results.new_bulletins_count = Cardinality(NewByRule)
        /\ Len(check_results.new_bulletins) = check_results.new_bulletins_count

\* a check that reported a link with a failed row and no file, and held
\* back a link known from the ledger only
C19_Witness ==
    /\ check_results.made
    /\ \E k \in 1..Len(check_results.new_bulletins) :
          /\ Recorded(check_results.new_bulletins[k].name, {"failed"})
          /\ ~files[check_results.new_bulletins[k].name].exists
    /\ \E i \in 1..Len(check_results.remote) :
          /\ i \notin NewByRule
          /\ ~files[check_results.remote[i].name].exists
          /\ Recorded(check_results.remote[i].name, {"skipped"})

----------------------------------------------------------------------------
(* Claims about validation *)

\* the file starts with these bytes
StartsWith(sig) ==
    /\ Len(pdf_file.content) >= Len(sig)
    /\ \A i \in 1..Len(sig) : pdf_file.content[i] = sig[i]
\* the letters P, D, F stand next to each other inside the first 100 bytes
MarkerInFirstHundred ==
    \E i \in 1..98 :
        /\ i + 2 <= Len(pdf_file.content)
        /\ pdf_file.content[i] = "P"
        /\ pdf_file.content[i + 1] = "D"
        /\ pdf_file.content[i + 2] = "F"
Recognised ==
    \/ StartsWith(<<"%", "P", "D", "F">>)
    \/ MarkerInFirstHundred
    \/ StartsWith(<<"%", "!", "P", "S">>)

\* C20: a zero-byte file is invalid; a non-empty file is valid if it
\* starts with %PDF, or contains PDF within its first 100 bytes, or starts
\* with %!PS; a non-empty file with none of these is valid exactly when
\* its size is at least 1024 bytes (500 bytes: invalid, 2000 bytes:
\* valid); an error while inspecting a file makes it invalid.
C20_ValidityClassification ==
    pdf_file # NoPdf =>
        /\ pdf_file.unreadable # "no" => ~is_valid
        /\ Len(pdf_file.content) = 0 => ~is_valid
        /\ pdf_file.unreadable = "no" /\ Len(pdf_file.content) > 0 =>
              /\ Recognised => is_valid
              /\ ~Recognised => (is_valid <=> Len(pdf_file.content) >= 1024)
              /\ ~Recognised /\ Len(pdf_file.content) = 500 => ~is_valid
              /\ ~Recognised /\ Len(pdf_file.content) = 2000 => is_valid

\* a file of 2000 bytes without any signature was found valid
C20_Witness ==
    /\ is_valid
    /\ pdf_file.unreadable = "no"
    /\ Len(pdf_file.content) = 2000
    /\ ~Recognised

----------------------------------------------------------------------------
(* Claims about cleanup *)

\* the files that were there before the cleanup
StoredBefore == {n \in Names : lastCleanup.before[n].exists}
\* the stored files that validation classifies as invalid
InvalidBefore ==
    {n \in StoredBefore :
        ~validation_result(stored_pdf(lastCleanup.before[n],
                                      lastCleanup.inspected[n]))}
ReturnedNames ==
    {lastCleanup.returned[i] : i \in 1..Len(lastCleanup.returned)}

\* C21: cleanup_invalid_files(dry_run=True) deletes nothing: the files of
\* the output directory and the ledger are the same after the call as
\* before it, and the list returned is exactly the set of stored files
\* that validation classifies as invalid.
C21_DryRunDeletesNothing ==
    lastCleanup.made /\ lastCleanup.dry_run =>
        /\ files = lastCleanup.before
        /\ ledger = lastCleanup.ledger_before
        /\ ReturnedNames = InvalidBefore
        /\ Len(lastCleanup.returned) = Cardinality(InvalidBefore)

\* a dry run over a directory with an invalid file and a valid one
C21_Witness ==
    /\ lastCleanup.made /\ lastCleanup.dry_run
    /\ InvalidBefore # {}
    /\ StoredBefore \ InvalidBefore # {}
    /\ \E n \in InvalidBefore : lastCleanup.inspected[n] = "no"

\* C22: cleanup_invalid_files(dry_run=False) attempts to delete every
\* invalid file even when deleting some of them fails, never deletes a
\* valid file, and the list it returns is exactly the set of files that
\* were actually deleted (a file whose deletion failed is not in the
\* list returned and is still in storage).
C22_ReturnsDeletedFiles ==
    lastCleanup.made /\ ~lastCleanup.dry_run =>
        /\ lastCleanup.attempted = InvalidBefore
        /\ \A n \in StoredBefore \ InvalidBefore :
              files[n] = lastCleanup.before[n]
        /\ \A n \in InvalidBefore \ lastCleanup.deleted :
              files[n] = lastCleanup.before[n]
        /\ \A n \in lastCleanup.deleted : ~files[n].exists
        /\ ReturnedNames = lastCleanup.deleted

----------------------------------------------------------------------------
(* Claims about the two crawl loops *)

\* C23: in get_document_links and in main.get_bulletin_links the page
\* index starts at 0 and goes up by exactly 1 after each page that was
\* fetched, contributed a new link and has a next control: the pages
\* requested are 0, 1, 2, ... in order, page 0 without a query parameter
\* and page N > 0 with ?page=N, none skipped, none requested twice.
C23_PagesRequestedInOrder ==
    \A k \in 1..Len(crawlLog) :
        /\ crawlLog[k].page = k - 1
        /\ caller = "main" =>
              crawlLog[k].url = IF k = 1 THEN <<"BASE_URL">>
                                ELSE <<"BASE_URL", "?page=", k - 1>>

\* C27: a site that serves finitely many distinct filenames makes every
\* crawl (get_document_links with any max_pages, unlimited included, and
\* main.get_bulletin_links) terminate: a crawl that goes on to another
\* page has added a new filename on the page it leaves, and the pages
\* requested are at most the distinct filenames plus one.
C27_CrawlTerminates ==
    /\ [](Len(crawlLog) <= Cardinality(NamesOf(bulletin_links)) + 1)
    /\ [](\A k \in 1..(Len(crawlLog) - 1) : crawlLog[k].fresh # {})
    /\ <>(pc = "returned")

\* both loops returned after as many pages as there are filenames, plus one
C27_Witness ==
    /\ pc = "returned"
    /\ Len(crawlLog) = MaxListedNames + 1
    /\ Cardinality(NamesOf(bulletin_links)) = MaxListedNames
    /\ max_pages = Unlimited

----------------------------------------------------------------------------
(* Claims about run's early return *)

\* the crawl ended on its first page: the fetch used up its retries, or
\* the page was fetched and has no bulletin link
FirstPageFailed == Len(crawlLog) = 1 /\ ~crawlLog[1].ok
FirstPageEmpty ==
    Len(crawlLog) = 1 /\ crawlLog[1].ok /\ crawlLog[1].fresh = {}
\* run is at its test of bulletin_links, and takes the early return
AtLinksTest == pc = "returned" /\ caller = "run"
TakesEarlyReturn ==
    /\ pc' = "idle"
    /\ history'[Len(history')].how = "no_links"
    /\ tasks' = <<>> /\ ledger' = ledger /\ files' = files

----------------------------------------------------------------------------
(* Claims about the ledger across saves *)

\* C28: across any sequence of runs and saves the set of filenames
\* recorded in the persisted ledger never shrinks: a filename that has a
\* row after one save still has a row after every later save, also when
\* a later save starts from a ledger that could not be read completely.
C28_LedgerNeverShrinks ==
    lastSave.made =>
        RowNames(lastSave.before.rows) \subseteq RowNames(ledger.rows)

\* C29: if create_csv_summary fails while writing (the error is logged and
\* swallowed), the persisted ledger is left exactly as it was before the
\* call: a failed save never leaves a truncated or partially written
\* ledger.
C29_FailedSaveLeavesLedger ==
    lastSave.made /\ lastSave.write # "ok" => ledger = lastSave.before

----------------------------------------------------------------------------
(* Claims about the standalone script *)

\* C25: in main.download_bulletin, if a write error occurs while a
\* document is streamed and the call ends without a downloaded outcome,
\* no partial file for that filename is left in the output folder when
\* the call returns.
C25_NoPartialFileLeft ==
    \A t \in 1..Len(tasks) :
        (/\ tasks[t].pc = "done"
         /\ tasks[t].write = "write_error"
         /\ tasks[t].outcome.status # "downloaded")
        => ~files[tasks[t].link.name].exists

\* C26: in main.main every link handed to the worker pool yields exactly
\* one outcome whose status is downloaded, skipped or failed, and that
\* outcome is in the written summary; a link whose every attempt fails
\* is recorded with status failed, not dropped.
C26_EveryLinkInSummary ==
    pc = "exited" /\ tasks # <<>> =>
        \A t \in 1..Len(tasks) :
            /\ tasks[t].outcome.status \in {"downloaded", "skipped", "failed"}
            /\ Cardinality({i \in 1..Len(ledger.rows) :
                   /\ ledger.rows[i].file_name = tasks[t].link.name
                   /\ ledger.rows[i].status = tasks[t].outcome.status}) = 1

----------------------------------------------------------------------------
(* Claims about the store across runs and cleanups *)

\* the runs that produced an outcome for the filename
RunsWithOutcome(name) ==
    {i \in 1..Len(history) :
        name \in history[i].downloaded \cup history[i].failed
                 \cup history[i].skipped}
\* the most recent outcome of the filename is failed
LastOutcomeFailed(name) ==
    /\ RunsWithOutcome(name) # {}
    /\ name \in history[CHOOSE i \in RunsWithOutcome(name) :
                            \A j \in RunsWithOutcome(name) : j <= i].failed

\* C30: after any sequence of run and cleanup_invalid_files operations,
\* every filename whose ledger row has status downloaded is present as a
\* file in the output directory, and every filename whose most recent
\* outcome is failed has no file in the output directory.
C30_LedgerAgreesWithDirectory ==
    pc = "idle" =>
        \A n \in Names :
            /\ Recorded(n, {"downloaded"}) => files[n].exists
            /\ LastOutcomeFailed(n) => ~files[n].exists

----------------------------------------------------------------------------
(* Claims about the check workflow's effects *)

\* C31: check_for_new_bulletins / get_remote_bulletins (no report file) is
\* read-only: no step of it changes the files of the output directory or
\* the ledger, none hands a download to the pool, and once
\* get_remote_bulletins has returned the scraper's max_pages is what it
\* was before the call, for every limit and every way the crawl ends.
C31_CheckIsReadOnly ==
    /\ [][/\ files' = files
          /\ ledger' = ledger
          /\ tasks' = tasks
          /\ download_results' = download_results]_vars
    /\ []((check_results.made \/ (pc = "returned" /\ caller = "check"))
            => max_pages = cfg_max_pages)

\* a check with a limit whose page cap differs from the configured one has
\* returned, over a directory with a file and an existing ledger, and it
\* reported a bulletin a run would download
C31_Witness ==
    /\ check_results.made
    /\ limit # 0 /\ limit <= 50
    /\ limited_pages(limit) # cfg_max_pages
    /\ check_results.new_bulletins_count > 0
    /\ ledger.exists /\ ledger.rows # <<>>
    /\ \E n \in Names : files[n].exists
    /\ max_pages = cfg_max_pages

====
